---- MODULE Spec2Model ----
(***************************************************************************)
(* A model of the substitution-message parsing engine of VPlan_FR          *)
(* (src/backend/lesson_info.py).                                           *)
(*                                                                         *)
(* Python strings are modelled as sequences of one-character strings, so   *)
(* "a,b" is <<"a", ",", "b">>.  Python indexes from 0 and slices are       *)
(* half-open; the model indexes from 1, and a Python slice s[a:b] is       *)
(* written Slice(s, a, b) with the Python offsets a and b.                 *)
(***************************************************************************)
EXTENDS Integers, Sequences, FiniteSets, TLC

VARIABLES
    pc,          \* position of the caller: which call has been made
    string,      \* split_parens_aware: argument `string`
    sep,         \* split_parens_aware: argument `sep`
    out,         \* split_parens_aware: the returned list
    cur_lesson,     \* the models.Lesson the text belongs to
    cur_plan_type,  \* the plan the text is from: "forms", "teachers" or "rooms"
    message_text,   \* _parse_message: argument `info`, one message's text
    parsed_info,    \* _parse_message: the returned message, or the exception
    info_text,      \* ParsedLessonInfo.from_str: argument `info`, a lesson's notice
    lesson_info,    \* the ParsedLessonInfo object, or the exception from_str raised
    resolve_calls,  \* number of calls of resolve_teachers on the object
    group_texts,    \* the texts of three messages a, b, c that are compared
    group_messages, \* the three messages, as parsed and as resolved
    groupable,      \* is_groupable of every two of them: the value or the exception
    render_text,    \* the text of the message that is displayed
    render_message, \* the message, as parsed and as resolved
    text_segments,  \* to_text_segments of the message: the list or the exception
    fuzzy_text,     \* add_fuzzy_with_validator: argument `text`
    fuzzy_pass,     \* the pass that calls it: its patterns and its validator
    fuzzy_i,        \* add_fuzzy_with_validator: the cursor i
    fuzzy_segments, \* add_fuzzy_with_validator: the list `segments`
    fuzzy_iterations,  \* number of iterations of its while loop so far
    extract_text,   \* the notice of the lesson extract_teachers is called with
    extract_lesson, \* extract_teachers: argument `lesson`
    extract_classes,  \* extract_teachers: argument `classes`
    extract_out,    \* extract_teachers: the dict `out` at the return, or the exception
    line_text,      \* process_additional_info_line: argument `text`
    line_input,     \* its arguments parsed_existing_forms, teachers, date and rooms
    line_history,   \* its list `segments` before the passes and behind each of them
    line_segments,  \* the list it returns, or the exception
    grouped_input,  \* group_text_segments: argument `segments` at the call
    grouped_objects,  \* the segment objects of the argument behind the call
    grouped_output, \* group_text_segments: the returned list
    grouped_again,  \* group_text_segments of the returned list
    known_teachers, \* the teacher validator: the directory `teachers`
    candidate,      \* the teacher validator: surname_or_abbreviation, the match
    normalised,     \* the teacher validator: _surname_or_abbreviation behind the loop
    looked_up,      \* the teacher validator: what query_plan_teacher gave for it
    sort_text,      \* the notice whose ParsedLessonInfo is sorted
    sort_parsed,    \* ParsedLessonInfo.from_str of the notice, as it was returned
    sort_heap,      \* the list objects of the ParsedLessonInfo objects, by address
    sort_objects,   \* the ParsedLessonInfo objects: that of from_str and those returned
    sort_call,      \* the last call on one of them: method, receiver, returned value
    sort_keys,      \* what lesson_group_sort_key returned for the whole notice, by its order
    downloaded_files,  \* check_infinite: what update_fetch returned in this cycle
    remaining_items,   \* check_infinite: the items the for loop has not reached
    crawler_calls,     \* the calls check_infinite has made, cycle by cycle
    cached_timestamps, \* get_revision_from_last_modified: cache.get_timestamps(date)
    last_modified,     \* get_revision_from_last_modified: argument `last_modified`
    revision           \* get_revision_from_last_modified: the returned timestamp

splitVars == <<string, sep, out>>
lessonVars == <<cur_lesson, cur_plan_type>>
messageVars == <<message_text, parsed_info>>
infoVars == <<info_text, lesson_info, resolve_calls>>
groupVars == <<group_texts, group_messages, groupable>>
renderVars == <<render_text, render_message, text_segments>>
fuzzyVars == <<fuzzy_text, fuzzy_pass, fuzzy_i, fuzzy_segments, fuzzy_iterations>>
extractVars == <<extract_text, extract_lesson, extract_classes, extract_out>>
lineVars == <<line_text, line_input, line_history, line_segments>>
groupedVars == <<grouped_input, grouped_objects, grouped_output, grouped_again>>
normaliseVars == <<known_teachers, candidate, normalised, looked_up>>
sortVars == <<sort_text, sort_parsed, sort_heap, sort_objects, sort_call, sort_keys>>
crawlerVars == <<downloaded_files, remaining_items, crawler_calls>>
revisionVars == <<cached_timestamps, last_modified, revision>>
vars == <<pc, splitVars, lessonVars, messageVars, infoVars, groupVars, renderVars,
          fuzzyVars, extractVars, lineVars, groupedVars, normaliseVars, sortVars,
          crawlerVars, revisionVars>>

\* A value for a variable the running specification does not use.
Unused == <<"unused">>

\* The variables of the calls a specification does not make
SplitIdle == string = Unused /\ sep = Unused /\ out = Unused
MessageIdle == message_text = Unused /\ parsed_info = Unused
InfoIdle == info_text = Unused /\ lesson_info = Unused /\ resolve_calls = 0
GroupIdle == group_texts = Unused /\ group_messages = Unused /\ groupable = Unused
RenderIdle == render_text = Unused /\ render_message = Unused /\ text_segments = Unused
FuzzyIdle ==
    /\ fuzzy_text = Unused /\ fuzzy_pass = Unused /\ fuzzy_i = 0
    /\ fuzzy_segments = Unused /\ fuzzy_iterations = 0
ExtractIdle ==
    /\ extract_text = Unused /\ extract_lesson = Unused
    /\ extract_classes = Unused /\ extract_out = Unused
LineIdle ==
    /\ line_text = Unused /\ line_input = Unused
    /\ line_history = Unused /\ line_segments = Unused
GroupedIdle ==
    /\ grouped_input = Unused /\ grouped_objects = Unused
    /\ grouped_output = Unused /\ grouped_again = Unused
NormaliseIdle ==
    /\ known_teachers = Unused /\ candidate = Unused
    /\ normalised = Unused /\ looked_up = Unused
SortIdle ==
    /\ sort_text = Unused /\ sort_parsed = Unused /\ sort_heap = Unused
    /\ sort_objects = Unused /\ sort_call = Unused /\ sort_keys = Unused
CrawlerIdle ==
    downloaded_files = Unused /\ remaining_items = Unused /\ crawler_calls = Unused
RevisionIdle == cached_timestamps = Unused /\ last_modified = Unused /\ revision = Unused

\* The variables of the text segments, of the sorting and of the crawler
restVars == <<groupedVars, normaliseVars, sortVars, crawlerVars, revisionVars>>
RestIdle == GroupedIdle /\ NormaliseIdle /\ SortIdle /\ CrawlerIdle /\ RevisionIdle

\* The variables of the calls on parsed messages, which the specifications of
\* the parser leave alone, and the variables of the parser
laterVars == <<groupVars, renderVars, fuzzyVars, extractVars, lineVars, restVars>>
LaterIdle ==
    GroupIdle /\ RenderIdle /\ FuzzyIdle /\ ExtractIdle /\ LineIdle /\ RestIdle
parserVars == <<splitVars, messageVars, infoVars>>
ParserIdle == SplitIdle /\ MessageIdle /\ InfoIdle

\* The variables of the calls on texts and messages
textVars == <<parserVars, groupVars, renderVars, fuzzyVars, extractVars, lineVars>>
TextIdle == ParserIdle /\ GroupIdle /\ RenderIdle /\ FuzzyIdle /\ ExtractIdle /\ LineIdle

----------------------------------------------------------------------------
(* Python string helpers *)

\* s[a:b] with Python offsets 0 <= a, b <= len(s)
Slice(s, a, b) == SubSeq(s, a + 1, b)

\* All sequences over `alphabet` of length at most n
RECURSIVE StringsUpTo(_, _)
StringsUpTo(alphabet, n) ==
    IF n = 0 THEN {<<>>}
    ELSE LET shorter == StringsUpTo(alphabet, n - 1)
         IN  shorter \cup {Append(s, c) : s \in shorter, c \in alphabet}

\* sep.join(parts)
RECURSIVE Join(_, _)
Join(parts, s) ==
    IF parts = <<>> THEN <<>>
    ELSE IF Len(parts) = 1 THEN parts[1]
    ELSE parts[1] \o s \o Join(Tail(parts), s)

----------------------------------------------------------------------------
(* split_parens_aware, lesson_info.py 595-619 *)

\* parens = {"(": ")"} if parens is None
DefaultParens == [c \in {"("} |-> ")"]

\* The first loop: for i, char in enumerate(string).  i is the Python index
\* of the next character; the result is sep_indexes (Python indexes).
RECURSIVE ScanSepIndexes(_, _, _, _, _, _)
ScanSepIndexes(str, sp, parens, i, parens_stack, sep_indexes) ==
    IF i >= Len(str) THEN sep_indexes
    ELSE LET char == str[i + 1] IN
         IF char \in DOMAIN parens
         THEN ScanSepIndexes(str, sp, parens, i + 1,
                             Append(parens_stack, parens[char]), sep_indexes)
         ELSE IF parens_stack # <<>> /\ char = parens_stack[Len(parens_stack)]
         THEN ScanSepIndexes(str, sp, parens, i + 1,
                             SubSeq(parens_stack, 1, Len(parens_stack) - 1),
                             sep_indexes)
         ELSE IF char = sp /\ parens_stack = <<>>
         THEN ScanSepIndexes(str, sp, parens, i + 1, parens_stack,
                             Append(sep_indexes, i))
         ELSE ScanSepIndexes(str, sp, parens, i + 1, parens_stack, sep_indexes)

\* The second loop: for sep_index in sep_indexes, then the trailing append.
RECURSIVE CutAtIndexes(_, _, _, _)
CutAtIndexes(str, sp, sep_indexes, start_index) ==
    IF sep_indexes = <<>> THEN << Slice(str, start_index, Len(str)) >>
    ELSE << Slice(str, start_index, sep_indexes[1]) >>
         \o CutAtIndexes(str, sp, Tail(sep_indexes), sep_indexes[1] + Len(sp))

\* Mutant: the bracket stack is ignored, every separator splits.
split_parens_aware_every_sep(str, sp, parens) ==
    CutAtIndexes(str, sp,
                 ScanSepIndexes(str, sp[1], [c \in {} |-> c], 0, <<>>, <<>>), 0)

\* Mutant: the piece after a separator starts at the separator itself.
split_parens_aware_keep_sep(str, sp, parens) ==
    CutAtIndexes(str, <<>>, ScanSepIndexes(str, sp[1], parens, 0, <<>>, <<>>), 0)

\* Mutant: no separator splits, the string stays in one piece.
split_parens_aware_never(str, sp, parens) == << str >>

split_parens_aware(str, sp, parens) ==
    CutAtIndexes(str, sp, ScanSepIndexes(str, sp[1], parens, 0, <<>>, <<>>), 0)

----------------------------------------------------------------------------
(* Python's re: backtracking regular expressions over character sequences.  *)
(* A pattern is a tree; MatchAt gives the matches of a pattern at an offset *)
(* in the order in which re's backtracking tries them, so the first one is  *)
(* the match re reports.                                                    *)

Lit(s) == [op |-> "lit", s |-> s]                       \* literal text
OneOf(cs) == [op |-> "set", cs |-> cs]                  \* [...] or \d, \w
AnyChar == [op |-> "any"]                               \* .
Cat(parts) == [op |-> "cat", parts |-> parts]           \* r1 r2 ...
Alt(parts) == [op |-> "alt", parts |-> parts]           \* r1|r2|...
\* r{min,max}, greedy (max = -1: no limit); a "run" repeats one character
Rep(r, min, max) ==
    [op |-> IF r.op \in {"set", "any"} THEN "run" ELSE "rep",
     r |-> r, min |-> min, max |-> max]
Opt(r) == Rep(r, 0, 1)                                  \* r?
Star(r) == Rep(r, 0, -1)                                \* r*
Plus(r) == Rep(r, 1, -1)                                \* r+
Group(name, r) == [op |-> "group", name |-> name, r |-> r]  \* (?P<name>r), (r)

\* No groups captured
NoGroups == [n \in {} |-> <<0, 0>>]

\* The place <<list, index>> p comes before the place q
Before(p, q) == p[1] < q[1] \/ (p[1] = q[1] /\ p[2] < q[2])

\* The places of the matches in a sequence of lists of matches
Places(lists) == UNION { {<<k, j>> : j \in DOMAIN lists[k]} : k \in DOMAIN lists }

\* The places of the matches that no earlier match shares its end with
FirstPlaces(lists, places) ==
    {p \in places : \A q \in places :
        Before(q, p) => lists[q[1]][q[2]].e # lists[p[1]][p[2]].e}

\* The t-th of a set of places
NthPlace(firsts, t) ==
    CHOOSE p \in firsts : Cardinality({q \in firsts : Before(q, p)}) = t - 1

\* The matches at a set of places, in the order of the places
InOrder(lists, firsts) ==
    [t \in 1..Cardinality(firsts) |-> lists[NthPlace(firsts, t)[1]][NthPlace(firsts, t)[2]]]

\* The matches of several lists of matches, list after list, without the
\* later matches that end where an earlier one ends (the continuation of a
\* match depends on its end alone, so re never gets to use them).
FirstPerEnd(lists) ==
    IF lists = <<>> THEN <<>>
    ELSE InOrder(lists, FirstPlaces(lists, Places(lists)))

\* Matches that go on from a match with the groups g
Continued(matches, g) ==
    [m \in DOMAIN matches |-> [e |-> matches[m].e, g |-> matches[m].g @@ g]]

\* The matches of a group: the matches of its pattern, each with the span
\* of the group.
Grouped(name, i, inner) ==
    [k \in DOMAIN inner |->
        [e |-> inner[k].e, g |-> (name :> <<i, inner[k].e>>) @@ inner[k].g]]

RECURSIVE MatchAt(_, _, _)
RECURSIVE MatchCat(_, _, _, _)
RECURSIVE MatchRep(_, _, _, _)

\* The longest run of at most `limit` characters from offset i that the
\* one-character pattern r matches
LongestRun(r, s, i, limit) ==
    CHOOSE n \in 0..limit :
        /\ \A j \in 1..n : MatchAt(r, s, i + j - 1) # <<>>
        /\ n = limit \/ MatchAt(r, s, i + n) = <<>>

\* The matches that end at `longest`, `longest` - 1, ..., min characters
\* behind offset i
RunsDownTo(i, longest, min) ==
    [t \in 1..(longest - min + 1) |-> [e |-> i + longest - t + 1, g |-> NoGroups]]

\* Greedy repetition of a pattern of one character: the longest run of such
\* characters that max allows first, then the shorter ones down to min.
MatchRun(re, s, i) ==
    RunsDownTo(i, LongestRun(re.r, s, i, IF re.max = -1 THEN Len(s) - i ELSE re.max),
               re.min)

\* The matches of `re` in s that start at offset i, as [e |-> end offset,
\* g |-> the groups' (start, end) offsets], in backtracking order.
MatchAt(re, s, i) ==
    CASE re.op = "lit" ->
            IF i + Len(re.s) <= Len(s) /\ SubSeq(s, i + 1, i + Len(re.s)) = re.s
            THEN << [e |-> i + Len(re.s), g |-> NoGroups] >> ELSE <<>>
      [] re.op = "set" ->
            IF i < Len(s) /\ s[i + 1] \in re.cs
            THEN << [e |-> i + 1, g |-> NoGroups] >> ELSE <<>>
      [] re.op = "any" ->
            IF i < Len(s) /\ s[i + 1] # "\n"
            THEN << [e |-> i + 1, g |-> NoGroups] >> ELSE <<>>
      [] re.op = "cat" -> MatchCat(re.parts, 1, s, << [e |-> i, g |-> NoGroups] >>)
      [] re.op = "alt" ->
            FirstPerEnd([k \in DOMAIN re.parts |-> MatchAt(re.parts[k], s, i)])
      [] re.op = "run" -> MatchRun(re, s, i)
      [] re.op = "rep" -> MatchRep(re, 0, s, i)
      [] re.op = "group" -> Grouped(re.name, i, MatchAt(re.r, s, i))

\* The matches of parts[k+1], ... behind the matches found[j] of parts[k],
\* which go on from the matches starts[j] of the parts before.
MatchCatBehind(parts, k, s, starts, found) ==
    IF found = <<>> THEN starts
    ELSE MatchCat(parts, k + 1, s,
             FirstPerEnd([j \in DOMAIN starts |-> Continued(found[j], starts[j].g)]))

\* parts[k], parts[k+1], ... one after the other, going on from the matches
\* `starts` of the parts before: parts[k] from the end of every one of them.
MatchCat(parts, k, s, starts) ==
    IF k > Len(parts) THEN starts
    ELSE MatchCatBehind(parts, k, s, starts,
             [j \in DOMAIN starts |-> MatchAt(parts[k], s, starts[j].e)])

\* The matches of a repetition from the matches `firsts` of one more
\* iteration and the matches rests[j] of the repetition behind firsts[j]:
\* these first, stopping here (`stop`) last.
MatchRepBehind(firsts, rests, stop) ==
    IF rests = <<>> THEN stop
    ELSE FirstPerEnd([j \in 1..(Len(firsts) + 1) |->
             IF j <= Len(firsts) THEN Continued(rests[j], firsts[j].g) ELSE stop])

\* The repetition behind every match of one more iteration
MatchRepAfter(re, count, s, i, firsts) ==
    MatchRepBehind(firsts,
        [j \in DOMAIN firsts |-> MatchRep(re, count + 1, s, firsts[j].e)],
        IF count >= re.min THEN << [e |-> i, g |-> NoGroups] >> ELSE <<>>)

\* Greedy repetition after `count` iterations: one more iteration first,
\* stopping here last.  (No repeated pattern of the program matches the
\* empty string, so every iteration advances.)
MatchRep(re, count, s, i) ==
    MatchRepAfter(re, count, s, i,
        IF re.max = -1 \/ count < re.max THEN MatchAt(re.r, s, i) ELSE <<>>)

\* A match object, or None
NoMatch == [ok |-> FALSE]

\* pattern.match(s, pos): the first match at offset pos
re_match(pattern, s, pos) ==
    LET results == MatchAt(pattern, s, pos)
    IN  IF results = <<>> THEN NoMatch
        ELSE [ok |-> TRUE, start |-> pos, end |-> results[1].e, g |-> results[1].g]

\* pattern.search(s): the first match at the leftmost offset that has one
SearchFrom(pattern, s, pos) ==
    LET offsets == {p \in pos..Len(s) : MatchAt(pattern, s, p) # <<>>}
    IN  IF offsets = {} THEN NoMatch
        ELSE re_match(pattern, s, CHOOSE p \in offsets : \A q \in offsets : p <= q)

\* A search that looks at the start of s only, as pattern.match does
re_search_at_start(pattern, s) == re_match(pattern, s, 0)

re_search(pattern, s) == SearchFrom(pattern, s, 0)

\* match.group(name), for a group that took part in the match
group(m, s, name) == Slice(s, m.g[name][1], m.g[name][2])

\* match.group() and the text around it
matched(m, s) == Slice(s, m.start, m.end)

----------------------------------------------------------------------------
(* Character classes of the patterns *)

AsciiUpper == {"A", "B", "C", "D", "E", "F", "G", "H", "I", "J", "K", "L", "M",
               "N", "O", "P", "Q", "R", "S", "T", "U", "V", "W", "X", "Y", "Z"}
AsciiLower == {"a", "b", "c", "d", "e", "f", "g", "h", "i", "j", "k", "l", "m",
               "n", "o", "p", "q", "r", "s", "t", "u", "v", "w", "x", "y", "z"}
Digits == {"0", "1", "2", "3", "4", "5", "6", "7", "8", "9"}    \* \d
UpperDE == AsciiUpper \cup {"Ä", "Ö", "Ü"}                      \* [A-ZÄÖÜ]
LowerDE == AsciiLower \cup {"ä", "ö", "ü", "ß"}                 \* [a-zäöüß]
WordChars == UpperDE \cup LowerDE \cup Digits \cup {"_"}        \* \w
Whitespace == {" ", "\t", "\n"}                                 \* \s, str.strip()

----------------------------------------------------------------------------
(* _InfoParsers, lesson_info.py 24-100 *)

\* (?:[A-ZÄÖÜ]')?[A-ZÄÖÜ][a-zäöüß]+(?:-[A-ZÄÖÜ][a-zäöüß]+)*\.?
_name_element ==
    Cat(<< Opt(Cat(<<OneOf(UpperDE), Lit(<<"'">>)>>)),
           OneOf(UpperDE),
           Plus(OneOf(LowerDE)),
           Star(Cat(<<Lit(<<"-">>), OneOf(UpperDE), Plus(OneOf(LowerDE))>>)),
           Opt(Lit(<<".">>)) >>)

\* (?:E)(?: ?E)*(?: van)?(?: E)
_teacher_name ==
    Cat(<< _name_element,
           Star(Cat(<<Opt(Lit(<<" ">>)), _name_element>>)),
           Opt(Lit(<<" ", "v", "a", "n">>)),
           Cat(<<Lit(<<" ">>), _name_element>>) >>)

\* [A-ZÄÖÜ][A-ZÄÖÜa-zäöüß]{2,}
_teacher_abbreviation ==
    Cat(<< OneOf(UpperDE), Rep(OneOf(UpperDE \cup LowerDE), 2, -1) >>)

\* (?:N)|(?:A)
_teacher == Alt(<< _teacher_name, _teacher_abbreviation >>)

\* fr"{_teacher}(?:, ?{_teacher})*": the text (?:N)|(?:A)(?:, ?(?:N)|(?:A))*,
\* in which | binds loosest: N, or A followed by any number of ", ?N" or A.
_teachers ==
    Alt(<< _teacher_name,
           Cat(<< _teacher_abbreviation,
                  Star(Alt(<< Cat(<<Lit(<<",">>), Opt(Lit(<<" ">>)), _teacher_name>>),
                              _teacher_abbreviation >>)) >>) >>)

\* ([A-Za-z0-9ÄÖÜäöüß\/\-_]{2,8})
_course ==
    Group("1", Rep(OneOf(UpperDE \cup LowerDE \cup Digits \cup {"/", "-", "_"}), 2, 8))

\* St\.(?P<periods>(?P<period_begin>\d{1,2})(?:-(?P<period_end>\d{1,2}))?)
_period ==
    Cat(<< Lit(<<"S", "t", ".">>),
           Group("periods",
                 Cat(<< Group("period_begin", Rep(OneOf(Digits), 1, 2)),
                        Opt(Cat(<<Lit(<<"-">>),
                                  Group("period_end", Rep(OneOf(Digits), 1, 2))>>)) >>)) >>)

\* (?:Mo|Di|Mi|Do|Fr|Sa|So)
_weekday ==
    Alt(<< Lit(<<"M", "o">>), Lit(<<"D", "i">>), Lit(<<"M", "i">>), Lit(<<"D", "o">>), Lit(<<"F", "r">>),
           Lit(<<"S", "a">>), Lit(<<"S", "o">>) >>)

\* (?:\d{2}\.\d{2}\.)
_date ==
    Cat(<< Rep(OneOf(Digits), 2, 2), Lit(<<".">>), Rep(OneOf(Digits), 2, 2), Lit(<<".">>) >>)

\* {_weekday} \((?P<date>{_date})\) {_period}
_lesson_specifier ==
    Cat(<< _weekday, Lit(<<" ", "(">>), Group("date", _date), Lit(<<")", " ">>), _period >>)

\* verlegt von {_period}
moved_from == Cat(<< Lit(<<"v", "e", "r", "l", "e", "g", "t", " ", "v", "o", "n", " ">>), _period >>)

\* für (?P<course>{_course}) (?P<teachers>{_teachers})
substitution ==
    Cat(<< Lit(<<"f", "ü", "r", " ">>), Group("course", _course), Lit(<<" ">>),
           Group("teachers", _teachers) >>)

\* statt {_weekday} \((?P<date>{_date})\) {_period}
instead_of ==
    Cat(<< Lit(<<"s", "t", "a", "t", "t", " ">>), _weekday, Lit(<<" ", "(">>), Group("date", _date),
           Lit(<<")", " ">>), _period >>)

\* (?P<course>{_course}) (?P<teachers>{_teachers}) gehalten am {_lesson_specifier}
held_at ==
    Cat(<< Group("course", _course), Lit(<<" ">>), Group("teachers", _teachers),
           Lit(<<" ", "g", "e", "h", "a", "l", "t", "e", "n", " ", "a", "m", " ">>), _lesson_specifier >>)

\* (?P<course>{_course}) (?P<teachers>{_teachers}) verlegt nach {_period}
moved_to ==
    Cat(<< Group("course", _course), Lit(<<" ">>), Group("teachers", _teachers),
           Lit(<<" ", "v", "e", "r", "l", "e", "g", "t", " ", "n", "a", "c", "h", " ">>), _period >>)

\* (?P<course>{_course}) (?P<teachers>{_teachers}) verlegt nach {_lesson_specifier}
moved_to_date ==
    Cat(<< Group("course", _course), Lit(<<" ">>), Group("teachers", _teachers),
           Lit(<<" ", "v", "e", "r", "l", "e", "g", "t", " ", "n", "a", "c", "h", " ">>), _lesson_specifier >>)

\* (?P<course>{_course}) (?P<teachers>{_teachers}) (fällt aus|entfällt)
cancelled ==
    Cat(<< Group("course", _course), Lit(<<" ">>), Group("teachers", _teachers),
           Lit(<<" ">>), Group("3", Alt(<<Lit(<<"f", "ä", "l", "l", "t", " ", "a", "u", "s">>), Lit(<<"e", "n", "t", "f", "ä", "l", "l", "t">>)>>)) >>)

\* selbst\.(?: \(.\))?
independent ==
    Cat(<< Lit(<<"s", "e", "l", "b", "s", "t", ".">>), Opt(Cat(<<Lit(<<" ", "(">>), AnyChar, Lit(<<")">>)>>)) >>)

\* Aufgaben stehen im LernSax
tasks_in_lernsax == Lit(<<"A", "u", "f", "g", "a", "b", "e", "n", " ", "s", "t", "e", "h", "e", "n", " ", "i", "m", " ", "L", "e", "r", "n", "S", "a", "x">>)

\* Aufgaben wurden erteilt
tasks_were_given == Lit(<<"A", "u", "f", "g", "a", "b", "e", "n", " ", "w", "u", "r", "d", "e", "n", " ", "e", "r", "t", "e", "i", "l", "t">>)

\* bitte(( \w+)+) bearbeiten
do_where ==
    Cat(<< Lit(<<"b", "i", "t", "t", "e">>),
           Group("1", Plus(Group("2", Cat(<<Lit(<<" ">>), Plus(OneOf(WordChars))>>)))),
           Lit(<<" ", "b", "e", "a", "r", "b", "e", "i", "t", "e", "n">>) >>)

\* The pattern of a form as a notice writes it, such as 6/2 or 10/1
\* (vplan_utils._parse_form_pattern)
_form ==
    Cat(<< Rep(OneOf(Digits), 1, 2), Lit(<<"/">>), Rep(OneOf(Digits), 1, 2) >>)

\* gesamte Klasse (?P<form>{_form})
whole_form == Cat(<< Lit(<<"g", "e", "s", "a", "m", "t", "e", " ", "K", "l", "a", "s", "s", "e", " ">>), Group("form", _form) >>)

\* individuelle Nachbearbeitung des aktuellen Stoffes (?P<location>in der Bibo)?
individual_revision ==
    Cat(<< Lit(<<"i", "n", "d", "i", "v", "i", "d", "u", "e", "l", "l", "e", " ", "N", "a", "c", "h", "b", "e", "a", "r", "b", "e", "i", "t", "u", "n", "g", " ", "d", "e", "s", " ", "a", "k", "t", "u", "e", "l", "l", "e", "n", " ", "S", "t", "o", "f", "f", "e", "s", " ">>),
           Opt(Group("location", Lit(<<"i", "n", " ", "d", "e", "r", " ", "B", "i", "b", "o">>))) >>)

\* Prüfung (?P<last_name>[A-ZÄÖÜ][a-zäöüß]+)
exam ==
    Cat(<< Lit(<<"P", "r", "ü", "f", "u", "n", "g", " ">>),
           Group("last_name", Cat(<<OneOf(UpperDE), Plus(OneOf(LowerDE))>>)) >>)

----------------------------------------------------------------------------
(* Python values *)

\* None, and a value that is not None (for a field that may hold either)
None == <<>>
Some(x) == <<x>>

\* An exception that left the function, and the test for it
Raise(name) == [raised |-> name]
IsRaised(v) == "raised" \in DOMAIN v

\* The elements of a list
Range(f) == {f[i] : i \in DOMAIN f}

\* str.strip()
RECURSIVE lstrip(_)
lstrip(s) ==
    IF s # <<>> /\ s[1] \in Whitespace THEN lstrip(Tail(s)) ELSE s

RECURSIVE rstrip(_)
rstrip(s) ==
    IF s # <<>> /\ s[Len(s)] \in Whitespace
    THEN rstrip(SubSeq(s, 1, Len(s) - 1)) ELSE s

strip(s) == rstrip(lstrip(s))

\* str.split(c) for a one-character c
RECURSIVE str_split(_, _)
str_split(s, c) ==
    IF \E i \in 1..Len(s) : s[i] = c
    THEN LET i == CHOOSE i \in 1..Len(s) : s[i] = c /\ \A j \in 1..(i - 1) : s[j] # c
         IN  << SubSeq(s, 1, i - 1) >> \o str_split(SubSeq(s, i + 1, Len(s)), c)
    ELSE << s >>

\* str.replace(c, "") for a one-character c
str_remove(s, c) == SelectSeq(s, LAMBDA x : x # c)

\* int(s) for a string of decimal digits
DigitValue ==
    "0" :> 0 @@ "1" :> 1 @@ "2" :> 2 @@ "3" :> 3 @@ "4" :> 4 @@
    "5" :> 5 @@ "6" :> 6 @@ "7" :> 7 @@ "8" :> 8 @@ "9" :> 9

RECURSIVE int(_)
int(s) ==
    IF s = <<>> THEN 0
    ELSE 10 * int(SubSeq(s, 1, Len(s) - 1)) + DigitValue[s[Len(s)]]

\* The days of a month of the proleptic Gregorian calendar (datetime)
DaysInMonth(year, month) ==
    IF month = 2
    THEN IF (year % 4 = 0 /\ year % 100 # 0) \/ year % 400 = 0 THEN 29 ELSE 28
    ELSE IF month \in {4, 6, 9, 11} THEN 30 ELSE 31

\* datetime.datetime.strptime(f'{date}{year}', "%d.%m.%Y").date() for a
\* date text dd.mm. (two digits each, as the patterns capture it) and a
\* four-digit year: the date, or ValueError when there is no such day.
strptime_date(date_text, year) ==
    LET day == int(SubSeq(date_text, 1, 2))
        month == int(SubSeq(date_text, 4, 5))
    IN  IF month \in 1..12 /\ day \in 1..DaysInMonth(year, month)
        THEN [year |-> year, month |-> month, day |-> day]
        ELSE Raise("ValueError")

\* vplan_utils.parse_periods: "a" is {a}, "a-b" is {a, ..., b}
parse_periods(s) ==
    LET ends == str_split(s, "-")
    IN  IF Len(ends) = 1 THEN {int(ends[1])}
        ELSE int(ends[1])..int(ends[2])

----------------------------------------------------------------------------
(* The message variants, lesson_info.py 143-412.  A message is a record of  *)
(* the fields its class has; before, after and original_messages start as   *)
(* the class defaults of ParsedLessonInfoMessage (lines 144-147).           *)

MessageDefaults == [before |-> <<>>, after |-> <<>>, original_messages |-> None]

\* The variants that have _teachers, course and other_info_value
\* (AbstractParsedLessonInfoMessageWithCourseInfo)
CourseVariants == {"InsteadOfCourse", "MovedTo", "Cancelled"}

----------------------------------------------------------------------------
(* _parse_form_plan_message, lesson_info.py 436-517: the pair (message,     *)
(* match) as [parsed_info, match], or the exception raised.                 *)



\* The message of a rule whose date is read by strptime: the exception when
\* strptime raises.
WithDate(date, message, match) ==
    IF IsRaised(date) THEN date
    ELSE [parsed_info |-> message @@ [date |-> Some(date)], match |-> match]

\* The if/elif chain of lines 437-517.  Every branch is an operator of the
\* match object of its rule; the branches are written last to first, each
\* naming the branch the code goes on with when its rule does not match.
_parse_form_plan_message(info, lesson) ==
    LET year == lesson._lesson_date.year
        teachers_of(m) == Range(str_split(group(m, info, "teachers"), ","))
        no_rule ==                                             \* lines 516-517
            [parsed_info |-> [type |-> "FailedToParse"] @@ MessageDefaults,
             match |-> NoMatch]
        on_tasks_were_given(m) ==                              \* lines 514-515
            IF m.ok THEN
                [parsed_info |-> [type |-> "TasksWereGiven", plan_type |-> "forms"]
                                 @@ MessageDefaults,
                 match |-> m]
            ELSE no_rule
        on_tasks_in_lernsax(m) ==                              \* lines 512-513
            IF m.ok THEN
                [parsed_info |-> [type |-> "TasksInLernsax", plan_type |-> "forms"]
                                 @@ MessageDefaults,
                 match |-> m]
            ELSE on_tasks_were_given(re_search(tasks_were_given, info))
        on_independent(m) ==                                   \* lines 510-511
            IF m.ok THEN
                [parsed_info |-> [type |-> "DoIndependently", plan_type |-> "forms"]
                                 @@ MessageDefaults,
                 match |-> m]
            ELSE on_tasks_in_lernsax(re_search(tasks_in_lernsax, info))
        on_whole_form(m) ==                                    \* lines 505-509
            IF m.ok THEN
                [parsed_info |->
                    [type |-> "WholeForm",
                     form |-> str_remove(group(m, info, "form"), " "),
                     periods |-> lesson.periods] @@ MessageDefaults,
                 match |-> m]
            ELSE on_independent(re_search(independent, info))
        on_individual_revision(m) ==                           \* lines 503-504
            IF m.ok THEN
                [parsed_info |->
                    [type |-> "IndividualRevision", plan_type |-> "forms",
                     location |-> IF "location" \in DOMAIN m.g
                                  THEN Some(group(m, info, "location"))
                                  ELSE None] @@ MessageDefaults,
                 match |-> m]
            ELSE on_whole_form(re_search(whole_form, info))
        on_do_where(m) ==                                      \* lines 501-502
            IF m.ok THEN
                [parsed_info |->
                    [type |-> "DoAtLocation", plan_type |-> "forms",
                     location |-> strip(group(m, info, "1"))] @@ MessageDefaults,
                 match |-> m]
            ELSE on_individual_revision(re_search(individual_revision, info))
        on_exam(m) ==                                          \* lines 499-500
            IF m.ok THEN
                [parsed_info |->
                    [type |-> "Exam", last_name |-> group(m, info, "last_name")]
                    @@ MessageDefaults,
                 match |-> m]
            ELSE on_do_where(re_search(do_where, info))
        on_cancelled(m) ==                                     \* lines 490-498
            IF m.ok THEN
                [parsed_info |->
                    [type |-> "Cancelled", plan_type |-> "forms",
                     plan_value |-> lesson.forms,
                     course |-> group(m, info, "course"),
                     _teachers |-> teachers_of(m),
                     other_info_value |-> None,
                     periods |-> lesson.periods] @@ MessageDefaults,
                 match |-> m]
            ELSE on_exam(re_search(exam, info))
        on_moved_to_date(m) ==                                 \* lines 480-489
            IF m.ok THEN
                WithDate(strptime_date(group(m, info, "date"), year),
                    [type |-> "MovedTo", plan_type |-> "forms",
                     plan_value |-> lesson.forms,
                     course |-> group(m, info, "course"),
                     _teachers |-> teachers_of(m),
                     other_info_value |-> None,
                     periods |-> parse_periods(group(m, info, "periods"))]
                    @@ MessageDefaults,
                    m)
            ELSE on_cancelled(re_match(cancelled, info, 0))
        on_moved_to(m) ==                                      \* lines 470-479
            IF m.ok THEN
                [parsed_info |->
                    [type |-> "MovedTo", plan_type |-> "forms",
                     plan_value |-> lesson.forms,
                     course |-> group(m, info, "course"),
                     _teachers |-> teachers_of(m),
                     other_info_value |-> None,
                     date |-> None,
                     periods |-> parse_periods(group(m, info, "periods"))]
                    @@ MessageDefaults,
                 match |-> m]
            ELSE on_moved_to_date(re_match(moved_to_date, info, 0))
        on_held_at(m) ==                                       \* lines 460-469
            IF m.ok THEN
                WithDate(strptime_date(group(m, info, "date"), year),
                    [type |-> "MovedTo", plan_type |-> "forms",
                     plan_value |-> lesson.forms,
                     course |-> group(m, info, "course"),
                     _teachers |-> teachers_of(m),
                     other_info_value |-> None,
                     periods |-> parse_periods(group(m, info, "periods"))]
                    @@ MessageDefaults,
                    m)
            ELSE on_moved_to(re_match(moved_to, info, 0))
        on_instead_of(m) ==                                    \* lines 453-459
            IF m.ok THEN
                WithDate(strptime_date(group(m, info, "date"), year),
                    [type |-> "MovedFrom", plan_type |-> "forms",
                     plan_value |-> lesson.forms,
                     periods |-> parse_periods(group(m, info, "periods"))]
                    @@ MessageDefaults,
                    m)
            ELSE on_held_at(re_match(held_at, info, 0))
        on_moved_from(m) ==                                    \* lines 446-452
            IF m.ok THEN
                [parsed_info |->
                    [type |-> "MovedFrom", plan_type |-> "forms",
                     plan_value |-> lesson.forms,
                     periods |-> {int(group(m, info, "period_begin"))},
                     date |-> None] @@ MessageDefaults,
                 match |-> m]
            ELSE on_instead_of(re_match(instead_of, info, 0))
        on_substitution(m) ==                                  \* lines 437-445
            IF m.ok THEN
                [parsed_info |->
                    [type |-> "InsteadOfCourse", plan_type |-> "forms",
                     plan_value |-> lesson.forms,
                     course |-> group(m, info, "course"),
                     other_info_value |-> None,
                     periods |-> lesson.periods,
                     _teachers |-> teachers_of(m)] @@ MessageDefaults,
                 match |-> m]
            ELSE on_moved_from(re_match(moved_from, info, 0))
    IN  on_substitution(re_match(substitution, info, 0))

----------------------------------------------------------------------------
(* _parse_message, lesson_info.py 520-541 *)

\* re.sub(r"(?<=\w)/ ", "/", info): the space of every "/ " that follows a
\* word character is dropped.  (Two occurrences never overlap, and the
\* lookbehind reads the text as it was.)
sub_slash_space(info) ==
    LET replaced(k) == /\ k >= 3 /\ info[k] = " " /\ info[k - 1] = "/"
                       /\ info[k - 2] \in WordChars
        marked == [k \in 1..Len(info) |-> IF replaced(k) THEN "" ELSE info[k]]
    IN  SelectSeq(marked, LAMBDA c : c # "")

\* Lines 532-541: the message with the matched text and the text around it,
\* for the text `info` as matched and the pair (parsed_info, match).
set_matched_text(info, result) ==
    IF IsRaised(result) THEN result
    ELSE IF result.match.ok
    THEN [result.parsed_info EXCEPT
            !.original_messages = << matched(result.match, info) >>,
            !.before = Slice(info, 0, result.match.start),
            !.after = Slice(info, result.match.end, Len(info))]
    ELSE [result.parsed_info EXCEPT
            !.original_messages = << info >>,
            !.before = <<>>,
            !.after = <<>>]

\* Lines 525-541, for the text `info` after lines 522-523
parse_rewritten_message(info, lesson, plan_type) ==
    set_matched_text(info,
        IF plan_type = "forms"
        THEN _parse_form_plan_message(info, lesson)
        ELSE [parsed_info |-> [type |-> "FailedToParse"] @@ MessageDefaults,
              match |-> NoMatch])

_parse_message(info, lesson, plan_type) ==
    parse_rewritten_message(sub_slash_space(strip(info)), lesson, plan_type)

----------------------------------------------------------------------------
(* LessonInfoMessage, LessonInfoParagraph and ParsedLessonInfo,             *)
(* lesson_info.py 568-718.  A method that raises gives the exception.       *)

\* The first exception of a sequence of results, None without one
RECURSIVE FirstRaised(_)
FirstRaised(results) ==
    IF results = <<>> THEN None
    ELSE IF IsRaised(Head(results)) THEN Some(Head(results))
    ELSE FirstRaised(Tail(results))

\* LessonInfoMessage.from_str
LessonInfoMessage_from_str(message, lesson, index, plan_type) ==
    LET cls(parsed) == IF IsRaised(parsed) THEN parsed
                       ELSE [parsed |-> parsed, index |-> index]
    IN  cls(_parse_message(message, lesson, plan_type))

\* for i, piece in enumerate(pieces) if piece.strip(): the trimmed pieces
\* that are not blank, with their index; i is the index of the first piece.
RECURSIVE enumerate_non_blank(_, _)
enumerate_non_blank(pieces, i) ==
    IF pieces = <<>> THEN <<>>
    ELSE (IF strip(Head(pieces)) # <<>>
          THEN << [i |-> i, text |-> strip(Head(pieces))] >>
          ELSE <<>>)
         \o enumerate_non_blank(Tail(pieces), i + 1)

\* A loop that keeps every message as it is
keep_unmerged(messages, new_messages) == new_messages \o messages

\* The loop of LessonInfoParagraph.from_str (lines 634-644): a FailedToParse
\* behind a FailedToParse hands its original_messages to it.
RECURSIVE merge_failed_to_parse(_, _)
merge_failed_to_parse(messages, new_messages) ==
    IF messages = <<>> THEN new_messages
    ELSE LET message == Head(messages)
             can_merge ==
                 /\ new_messages # <<>>
                 /\ new_messages[Len(new_messages)].parsed.type = "FailedToParse"
                 /\ message.parsed.type = "FailedToParse"
         IN  merge_failed_to_parse(Tail(messages),
                 IF can_merge
                 THEN [new_messages EXCEPT ![Len(new_messages)].parsed.original_messages =
                          @ \o message.parsed.original_messages]
                 ELSE Append(new_messages, message))

\* LessonInfoParagraph.from_str
LessonInfoParagraph_from_str(paragraph, lesson, index, plan_type) ==
    LET from_pieces(pieces) ==                                 \* lines 630-633
            [j \in 1..Len(pieces) |->
                LessonInfoMessage_from_str(pieces[j].text, lesson, pieces[j].i, plan_type)]
        cls(messages) ==                                       \* lines 634-646
            IF FirstRaised(messages) # None THEN FirstRaised(messages)[1]
            ELSE [messages |-> merge_failed_to_parse(messages, <<>>), index |-> index]
    IN  cls(from_pieces(enumerate_non_blank(
                split_parens_aware(paragraph, <<",">>, DefaultParens), 0)))

\* ParsedLessonInfo.from_str
ParsedLessonInfo_from_str(info, lesson, plan_type) ==
    LET from_pieces(pieces) ==
            [j \in 1..Len(pieces) |->
                LessonInfoParagraph_from_str(pieces[j].text, lesson, pieces[j].i, plan_type)]
        cls(paragraphs) ==
            IF FirstRaised(paragraphs) # None THEN FirstRaised(paragraphs)[1]
            ELSE [paragraphs |-> paragraphs]
    IN  cls(from_pieces(enumerate_non_blank(
                split_parens_aware(info, <<";">>, DefaultParens), 0)))

\* Teachers.query_plan_teacher of a directory that holds the plan_short of
\* the references it knows: the teacher, or LookupError.
query_plan_teacher(teachers, teacher_str) ==
    IF teacher_str \in DOMAIN teachers
    THEN [plan_short |-> teachers[teacher_str]]
    ELSE Raise("LookupError")

\* The body of the loops of resolve_teachers (lines 695-702) for one message
resolve_teachers_of_message(parsed, teachers) ==
    IF "_teachers" \in DOMAIN parsed
    THEN [parsed EXCEPT !.other_info_value =
            IF \E teacher_str \in parsed._teachers :
                  IsRaised(query_plan_teacher(teachers, teacher_str))
            THEN None
            ELSE Some({query_plan_teacher(teachers, teacher_str).plan_short :
                          teacher_str \in parsed._teachers})]
    ELSE parsed

\* A resolve_teachers without the try: the first lookup that fails ends the
\* loops, and the messages from there on stay as they were.
resolve_teachers_aborting(self, teachers) ==
    LET fails(p, m) ==
            /\ "_teachers" \in DOMAIN self.paragraphs[p].messages[m].parsed
            /\ \E teacher_str \in self.paragraphs[p].messages[m].parsed._teachers :
                  IsRaised(query_plan_teacher(teachers, teacher_str))
        reached(p, m) ==
            \A q \in DOMAIN self.paragraphs : \A n \in DOMAIN self.paragraphs[q].messages :
                (q < p \/ (q = p /\ n <= m)) => ~fails(q, n)
    IN  [paragraphs |->
            [p \in DOMAIN self.paragraphs |->
                [self.paragraphs[p] EXCEPT !.messages =
                    [m \in DOMAIN @ |->
                        IF reached(p, m)
                        THEN [@[m] EXCEPT !.parsed = resolve_teachers_of_message(@, teachers)]
                        ELSE @[m]]]]]

\* ParsedLessonInfo.resolve_teachers: the object after the call
resolve_teachers(self, teachers) ==
    [paragraphs |->
        [p \in DOMAIN self.paragraphs |->
            [self.paragraphs[p] EXCEPT !.messages =
                [m \in DOMAIN @ |->
                    [@[m] EXCEPT !.parsed = resolve_teachers_of_message(@, teachers)]]]]]

\* ord(c) of the characters of the texts
ord ==
    " " :> 32 @@ "(" :> 40 @@ ")" :> 41 @@ "," :> 44 @@ "-" :> 45 @@
    "." :> 46 @@ "/" :> 47 @@ "0" :> 48 @@ "1" :> 49 @@ "2" :> 50 @@
    "3" :> 51 @@ "4" :> 52 @@ "5" :> 53 @@ "6" :> 54 @@ "7" :> 55 @@
    "8" :> 56 @@ "9" :> 57 @@ ";" :> 59 @@ "A" :> 65 @@ "B" :> 66 @@
    "C" :> 67 @@ "D" :> 68 @@ "E" :> 69 @@ "F" :> 70 @@ "G" :> 71 @@
    "H" :> 72 @@ "I" :> 73 @@ "J" :> 74 @@ "K" :> 75 @@ "L" :> 76 @@
    "M" :> 77 @@ "N" :> 78 @@ "O" :> 79 @@ "P" :> 80 @@ "Q" :> 81 @@
    "R" :> 82 @@ "S" :> 83 @@ "T" :> 84 @@ "U" :> 85 @@ "V" :> 86 @@
    "W" :> 87 @@ "X" :> 88 @@ "Y" :> 89 @@ "Z" :> 90 @@ "_" :> 95 @@
    "a" :> 97 @@ "b" :> 98 @@ "c" :> 99 @@ "d" :> 100 @@ "e" :> 101 @@
    "f" :> 102 @@ "g" :> 103 @@ "h" :> 104 @@ "i" :> 105 @@ "j" :> 106 @@
    "k" :> 107 @@ "l" :> 108 @@ "m" :> 109 @@ "n" :> 110 @@ "o" :> 111 @@
    "p" :> 112 @@ "q" :> 113 @@ "r" :> 114 @@ "s" :> 115 @@ "t" :> 116 @@
    "u" :> 117 @@ "v" :> 118 @@ "w" :> 119 @@ "x" :> 120 @@ "y" :> 121 @@
    "z" :> 122 @@ "Ä" :> 196 @@ "Ö" :> 214 @@ "Ü" :> 220 @@ "ß" :> 223 @@
    "ä" :> 228 @@ "ö" :> 246 @@ "ü" :> 252

\* a < b as Python compares characters (depth 0), str (depth 1), lists of
\* str (depth 2) and lists of lists of str (depth 3)
RECURSIVE less_than(_, _, _)
less_than(a, b, depth) ==
    IF depth = 0 THEN ord[a] < ord[b]
    ELSE LET differing == {i \in 1..Len(a) : i <= Len(b) /\ a[i] # b[i]}
             first == CHOOSE i \in differing : \A j \in differing : i <= j
         IN  IF differing = {} THEN Len(a) < Len(b)
             ELSE less_than(a[first], b[first], depth - 1)

\* sorted() on [key, value] pairs: a stable sort, an element goes in front
\* of the first element whose key is greater than its own.
RECURSIVE sorted_pairs(_, _, _)
sorted_pairs(pairs, depth, done) ==
    IF pairs = <<>> THEN done
    ELSE LET x == Head(pairs)
             greater == {i \in 1..Len(done) : less_than(x.key, done[i].key, depth)}
             at == IF greater = {} THEN Len(done) + 1
                   ELSE CHOOSE i \in greater : \A j \in greater : i <= j
         IN  sorted_pairs(Tail(pairs), depth,
                 SubSeq(done, 1, at - 1) \o <<x>> \o SubSeq(done, at, Len(done)))

\* The values of a sequence of [key, value] pairs
values(pairs) == [i \in DOMAIN pairs |-> pairs[i].value]

\* LessonInfoParagraph.sorted(key=lambda i: i.parsed.original_messages)
LessonInfoParagraph_sorted(self) ==
    [messages |->
        values(sorted_pairs([i \in DOMAIN self.messages |->
                                [key |-> self.messages[i].parsed.original_messages,
                                 value |-> self.messages[i]]], 2, <<>>)),
     index |-> self.index]

\* ParsedLessonInfo.sorted_canonical
sorted_canonical(self) ==
    LET by_messages(paragraphs) ==                             \* lines 688-690
            [paragraphs |->
                values(sorted_pairs([p \in DOMAIN paragraphs |->
                    [key |-> [i \in DOMAIN paragraphs[p].messages |->
                                 paragraphs[p].messages[i].parsed.original_messages],
                     value |-> paragraphs[p]]], 3, <<>>))]
    IN  by_messages([p \in DOMAIN self.paragraphs |->          \* line 686
                        LessonInfoParagraph_sorted(self.paragraphs[p])])

\* A key that tells the resolved teachers of the messages as well
lesson_group_sort_key_with_resolved(self) ==
    LET key_of(paragraphs) ==
            [p \in DOMAIN paragraphs |->
                [m \in DOMAIN paragraphs[p].messages |->
                    << paragraphs[p].messages[m].parsed.original_messages,
                       IF "other_info_value" \in DOMAIN paragraphs[p].messages[m].parsed
                       THEN paragraphs[p].messages[m].parsed.other_info_value
                       ELSE None >>]]
    IN  key_of(sorted_canonical(self).paragraphs)

\* ParsedLessonInfo.lesson_group_sort_key
lesson_group_sort_key(self) ==
    LET key_of(paragraphs) ==
            [p \in DOMAIN paragraphs |->
                [m \in DOMAIN paragraphs[p].messages |->
                    paragraphs[p].messages[m].parsed.original_messages]]
    IN  key_of(sorted_canonical(self).paragraphs)


----------------------------------------------------------------------------
(* is_groupable, lesson_info.py 205-211 and 316-322.  Only MovedFrom and    *)
(* MovedTo define the method; ParsedLessonInfoMessage and the other         *)
(* variants have none.                                                      *)

\* The value a call returned, to tell it from an exception that left it
Return(v) == [returned |-> v]

\* AbstractParsedLessonInfoMessageWithCourseInfo.original_other_info_value
original_other_info_value(self) ==
    IF self._teachers # {} THEN Some(self._teachers) ELSE self.other_info_value

\* a == b and <rest> where a and b are attributes `name` of self and other:
\* AttributeError when other has no such attribute, False when the two
\* differ, and the rest of the chain otherwise.
AndEqual(self, other, name, rest) ==
    IF name \notin DOMAIN other THEN Raise("AttributeError")
    ELSE IF self[name] # other[name] THEN Return(FALSE)
    ELSE rest

\* MovedFrom.is_groupable (lines 205-211)
MovedFrom_is_groupable(self, other) ==
    AndEqual(self, other, "before",
    AndEqual(self, other, "after",
    AndEqual(self, other, "date",
    AndEqual(self, other, "plan_type", Return(TRUE)))))

\* MovedTo.is_groupable (lines 316-322); original_other_info_value is a
\* property of the variants with a course.
MovedTo_is_groupable(self, other) ==
    AndEqual(self, other, "course",
    IF other.type \notin CourseVariants THEN Raise("AttributeError")
    ELSE IF original_other_info_value(self) # original_other_info_value(other)
    THEN Return(FALSE)
    ELSE AndEqual(self, other, "date",
         AndEqual(self, other, "plan_type", Return(TRUE))))

\* self.is_groupable(other): the method of the class of self
is_groupable(self, other) ==
    CASE self.type = "MovedFrom" -> MovedFrom_is_groupable(self, other)
      [] self.type = "MovedTo" -> MovedTo_is_groupable(self, other)
      [] OTHER -> Raise("AttributeError")


----------------------------------------------------------------------------
(* to_text_segments, lesson_info.py 131-412: the text segments a message    *)
(* is displayed as.                                                         *)

\* str(n) for n >= 0, and str.zfill
DigitChars == <<"0", "1", "2", "3", "4", "5", "6", "7", "8", "9">>

RECURSIVE str_int(_)
str_int(n) ==
    IF n < 10 THEN << DigitChars[n + 1] >>
    ELSE Append(str_int(n \div 10), DigitChars[(n % 10) + 1])

zfill(s, width) == [i \in 1..(width - Len(s)) |-> "0"] \o s

\* datetime.date: a < b, date.toordinal(), date.weekday() and
\* date.strftime('%d.%m.%Y')
date_not_greater(a, b) ==
    \/ a.year < b.year
    \/ a.year = b.year /\ a.month < b.month
    \/ a.year = b.year /\ a.month = b.month /\ a.day <= b.day

date_less_than(a, b) ==
    \/ a.year < b.year
    \/ a.year = b.year /\ a.month < b.month
    \/ a.year = b.year /\ a.month = b.month /\ a.day < b.day

RECURSIVE days_before_month(_, _)
days_before_month(year, month) ==
    IF month = 1 THEN 0
    ELSE days_before_month(year, month - 1) + DaysInMonth(year, month - 1)

toordinal(date) ==
    LET y == date.year - 1
    IN  y * 365 + (y \div 4) - (y \div 100) + (y \div 400)
          + days_before_month(date.year, date.month) + date.day

weekday(date) == (toordinal(date) + 6) % 7

strftime(date) ==
    zfill(str_int(date.day), 2) \o <<".">> \o zfill(str_int(date.month), 2)
        \o <<".">> \o zfill(str_int(date.year), 4)

\* de_weekday_to_str
de_weekday_to_str(day) ==
    << <<"M", "o">>, <<"D", "i">>, <<"M", "i">>, <<"D", "o">>, <<"F", "r">>, <<"S", "a">>, <<"S", "o">> >>[day + 1]

\* sorted() of a set of int and of a set of str
sorted_ints(S) ==
    [k \in 1..Cardinality(S) |->
        CHOOSE x \in S : Cardinality({y \in S : y < x}) = k - 1]

sorted_strs(S) ==
    [k \in 1..Cardinality(S) |->
        CHOOSE x \in S : Cardinality({y \in S : less_than(y, x, 1)}) = k - 1]

\* The orders in which the elements of a set can come up when it is
\* iterated (the order of a set of str differs from run to run)
Orders(S) ==
    {order \in [1..Cardinality(S) -> S] : \A x \in S : \E k \in DOMAIN order : order[k] = x}

\* blocks.BlockConfiguration.get_label_of_periods: the label of a range of
\* periods, "St. 3" or "St. 3-4"
get_label_of_periods(periods) ==
    LET sorted == sorted_ints(periods)
    IN  <<"S", "t", ".", " ">> \o str_int(sorted[1])
          \o (IF Len(sorted) > 1 THEN <<"-">> \o str_int(sorted[Len(sorted)]) ELSE <<>>)

\* vplan_utils.forms_to_str: the list of the forms
forms_to_str(forms) == Join(sorted_strs(forms[1]), <<",", " ">>)

\* typography_fixer.fix_typography: a hyphen between two spaces becomes a
\* dash (U+2013, written "ndash" here)
fix_typography(text) ==
    [k \in DOMAIN text |->
        IF text[k] = "-" /\ k > 1 /\ k < Len(text) /\ text[k - 1] = " " /\ text[k + 1] = " "
        THEN "ndash" ELSE text[k]]

\* An exception that left a call which returns a list, and the test for it
Raised(name) == << Raise(name) >>
HasRaised(list) == list # <<>> /\ IsRaised(list[1])

\* LessonInfoTextSegmentLink and LessonInfoTextSegment (lines 544-559)
LessonInfoTextSegmentLink(type, value, date, periods) ==
    [type |-> type, value |-> value, date |-> date, periods |-> periods]

LessonInfoTextSegment(text, link) == [text |-> text, link |-> link]

\* The link of a period label (the same in MovedFrom and MovedTo)
PeriodsLink(self, date) ==
    Some(LessonInfoTextSegmentLink(self.plan_type, sorted_strs(self.plan_value),
                                   date, Some(sorted_ints(self.periods))))

\* f"{weekday} ({dd.mm.YYYY}) {label}" of lines 196-197, 289-290 and 303-304
DatedLabel(self) ==
    de_weekday_to_str(weekday(self.date[1])) \o <<" ", "(">> \o strftime(self.date[1])
        \o <<")", " ">> \o get_label_of_periods(self.periods)

\* get_other_info_type_of_plan_type
get_other_info_type_of_plan_type(plan_type) ==
    [forms |-> "teachers", teachers |-> "forms", rooms |-> "forms"][plan_type]

\* Course segments whose link does not depend on other_info_value: sorted()
\* of it is called in any case, and fails on None.
_course_text_segments_always_linked(self, date, periods, order) ==
    IF self.other_info_value = None THEN Raised("TypeError")
    ELSE << LessonInfoTextSegment(self.course \o <<" ">>, None),
            LessonInfoTextSegment(Join(order, <<",", " ">>),
                Some(LessonInfoTextSegmentLink(get_other_info_type_of_plan_type(self.plan_type),
                         sorted_strs(self.other_info_value[1]), date, periods))) >>

\* _course_text_segments (lines 244-261); `order` is the order in which
\* ', '.join iterates over original_other_info_value.
_course_text_segments(self, date, periods, order) ==
    LET other_info_type == get_other_info_type_of_plan_type(self.plan_type)
        other_info_value_text ==
            IF other_info_type = "forms" THEN forms_to_str(self.other_info_value)
            ELSE Join(order, <<",", " ">>)
    IN  IF other_info_type # "forms" /\ original_other_info_value(self) = None
        THEN Raised("TypeError")
        ELSE << LessonInfoTextSegment(self.course \o <<" ">>, None),
                LessonInfoTextSegment(other_info_value_text,
                    IF self.other_info_value # None /\ self.other_info_value[1] # {}
                    THEN Some(LessonInfoTextSegmentLink(other_info_type,
                                  sorted_strs(self.other_info_value[1]), date, periods))
                    ELSE None) >>

\* MovedFrom._to_text_segments (lines 175-203)
MovedFrom_to_text_segments(self, lesson_date) ==
    IF self.date = None
    THEN << LessonInfoTextSegment(<<"v", "e", "r", "l", "e", "g", "t", " ", "v", "o", "n", " ">>, None),
            LessonInfoTextSegment(get_label_of_periods(self.periods),
                                  PeriodsLink(self, lesson_date)) >>
    ELSE << LessonInfoTextSegment(<<"s", "t", "a", "t", "t", " ">>, None),
            LessonInfoTextSegment(DatedLabel(self), PeriodsLink(self, self.date[1])) >>

\* MovedTo._to_text_segments (lines 269-314)
MovedTo_to_text_segments(self, lesson_date, order) ==
    LET moved(course_text_segments, text, label, date) ==
            IF HasRaised(course_text_segments) THEN course_text_segments
            ELSE course_text_segments
                   \o << LessonInfoTextSegment(text, None),
                         LessonInfoTextSegment(label, PeriodsLink(self, date)) >>
    IN  IF self.date = None
        THEN moved(_course_text_segments(self, lesson_date, None, order),
                   <<" ", "v", "e", "r", "l", "e", "g", "t", " ", "n", "a", "c", "h", " ">>, get_label_of_periods(self.periods), lesson_date)
        ELSE IF date_less_than(self.date[1], lesson_date)
        THEN moved(_course_text_segments(self, self.date[1],
                                         Some(sorted_ints(self.periods)), order),
                   <<" ", "g", "e", "h", "a", "l", "t", "e", "n", " ", "a", "m", " ">>, DatedLabel(self), self.date[1])
        ELSE moved(_course_text_segments(self, self.date[1],
                                         Some(sorted_ints(self.periods)), order),
                   <<" ", "v", "e", "r", "l", "e", "g", "t", " ", "n", "a", "c", "h", " ">>, DatedLabel(self), self.date[1])

\* self._to_text_segments(lesson_date, block_config) of the class of self
_to_text_segments(self, lesson_date, order) ==
    LET course_text_segments ==
            _course_text_segments(self, lesson_date, Some(sorted_ints(self.periods)), order)
    IN  CASE self.type = "MovedFrom" -> MovedFrom_to_text_segments(self, lesson_date)
          [] self.type = "MovedTo" -> MovedTo_to_text_segments(self, lesson_date, order)
          [] self.type = "InsteadOfCourse" ->                  \* lines 329-334
                IF HasRaised(course_text_segments) THEN course_text_segments
                ELSE << LessonInfoTextSegment(<<"f", "ü", "r", " ">>, None) >> \o course_text_segments
          [] self.type = "Cancelled" ->                        \* lines 341-346
                IF HasRaised(course_text_segments) THEN course_text_segments
                ELSE course_text_segments \o << LessonInfoTextSegment(<<" ", "f", "ä", "l", "l", "t", " ", "a", "u", "s">>, None) >>
          [] self.type = "WholeForm" ->                        \* lines 391-403
                << LessonInfoTextSegment(<<"g", "e", "s", "a", "m", "t", "e", " ">>, None),
                   LessonInfoTextSegment(<<"K", "l", "a", "s", "s", "e", " ">> \o self.form,
                       Some(LessonInfoTextSegmentLink("forms", << self.form >>, lesson_date,
                                                      Some(sorted_ints(self.periods))))) >>
          [] self.type = "FailedToParse" ->                    \* lines 410-412
                << LessonInfoTextSegment(
                       fix_typography(Join(self.original_messages, <<",", " ">>)), None) >>
          [] OTHER ->                                          \* lines 161-165
                << LessonInfoTextSegment(Join(self.original_messages, <<"\n">>), None) >>

\* ParsedLessonInfoMessage.to_text_segments (lines 153-159)
to_text_segments(self, lesson_date, order) ==
    LET around(segments) ==
            IF HasRaised(segments) THEN segments
            ELSE (IF self.before # <<>> THEN << LessonInfoTextSegment(self.before, None) >>
                  ELSE <<>>)
                 \o segments
                 \o (IF self.after # <<>> THEN << LessonInfoTextSegment(self.after, None) >>
                     ELSE <<>>)
    IN  around(_to_text_segments(self, lesson_date, order))


----------------------------------------------------------------------------
(* The fuzzy linker, lesson_info.py 842-869 and 954-964.  A pass is a       *)
(* record of its type, its patterns and what its validator looks at; a      *)
(* pattern is a regular expression between two assertions.                  *)

\* The assertions of the patterns at offset i of a text: (?<!\S),
\* (?=\s|[)!?:]) and \b
Asserted(assertion, text, i) ==
    CASE assertion = "none" -> TRUE
      [] assertion = "not_behind_non_space" -> i = 0 \/ text[i] \in Whitespace
      [] assertion = "before_space_or_closing" ->
            i < Len(text) /\ text[i + 1] \in Whitespace \cup {")", "!", "?", ":"}
      [] assertion = "word_boundary" ->
            (i > 0 /\ text[i] \in WordChars) # (i < Len(text) /\ text[i + 1] \in WordChars)

\* F(value), with the value computed once
Bound(value, F(_)) == CHOOSE result \in {F(v) : v \in {value}} : TRUE

\* The first of the ways `ends` to match an expression behind which the
\* assertion holds, as a match object
first_asserted(pattern, text, i, ends) ==
    LET held == {k \in DOMAIN ends : Asserted(pattern.ahead, text, ends[k].e)}
        first == CHOOSE k \in held : \A j \in held : k <= j
    IN  IF held = {} THEN NoMatch
        ELSE [ok |-> TRUE, start |-> i, end |-> ends[first].e, g |-> ends[first].g]

\* pattern.match(text, i): the first way to match the expression at offset i
\* behind which the assertion holds
pattern_match(pattern, text, i) ==
    IF Asserted(pattern.behind, text, i)
    THEN Bound(MatchAt(pattern.re, text, i),
               LAMBDA ends : first_asserted(pattern, text, i, ends))
    ELSE NoMatch

\* re.compile(fr"(?<!\S){r}(?=\s|[)!?:])") for a room of letters, digits and
\* dots: the room is put into the expression as it is, so its dots stand for
\* any character.
room_pattern(r) ==
    [re |-> Cat([k \in DOMAIN r |-> IF r[k] = "." THEN AnyChar ELSE Lit(<< r[k] >>)]),
     behind |-> "not_behind_non_space",
     ahead |-> "before_space_or_closing"]

\* The validator of add_fuzzy_room_links (lines 955-962)
room_validator(pass, text, match) ==
    Some(<< LessonInfoTextSegment(matched(match, text),
                Some(LessonInfoTextSegmentLink("rooms", << matched(match, text) >>,
                                               pass.date, None))) >>)

\* str.replace(old, new) for a non-empty old
RECURSIVE str_replace(_, _, _)
str_replace(s, old, new) ==
    IF Len(s) < Len(old) THEN s
    ELSE IF SubSeq(s, 1, Len(old)) = old
    THEN new \o str_replace(SubSeq(s, Len(old) + 1, Len(s)), old, new)
    ELSE << s[1] >> \o str_replace(Tail(s), old, new)

\* The dict `replacements` of lines 927-933, in the order of its items
replacements ==
    << << <<"H", "r">>, <<"H", "e", "r", "r">> >>, << <<"H", "r", ".">>, <<"H", "e", "r", "r">> >>, << <<"F", "r">>, <<"F", "r", "a", "u">> >>,
       << <<"F", "r", ".">>, <<"F", "r", "a", "u">> >>, << <<"H", "e", "r", "r", "n">>, <<"H", "e", "r", "r">> >> >>

\* The loop of lines 935-937 from item k on
RECURSIVE replace_from(_, _)
replace_from(_surname_or_abbreviation, k) ==
    IF k > Len(replacements) THEN _surname_or_abbreviation
    ELSE replace_from(
             str_replace(_surname_or_abbreviation, replacements[k][1], replacements[k][2]),
             k + 1)

\* The patterns of add_fuzzy_teacher_links (line 951): _InfoParsers._teacher
\* and \b\w+\b
teacher_patterns ==
    << [re |-> _teacher, behind |-> "none", ahead |-> "none"],
       [re |-> Plus(OneOf(WordChars)), behind |-> "word_boundary", ahead |-> "word_boundary"] >>

\* Lines 939-949: the segment of a match whose teacher was looked up, or
\* None after the LookupError
teacher_segments(pass, surname_or_abbreviation, teacher) ==
    IF IsRaised(teacher) THEN None
    ELSE Some(<< LessonInfoTextSegment(surname_or_abbreviation,
                    Some(LessonInfoTextSegmentLink("teachers", << teacher.plan_short >>,
                                                   pass.date, None))) >>)

\* The validator of add_fuzzy_teacher_links (lines 914-949).  The tokens of
\* nlp(context) that are no proper nouns are pass.not_proper_nouns: the
\* match is turned down when the scanned text is the text of one of them.
teacher_validator(pass, text, match) ==
    IF text \in pass.not_proper_nouns THEN None
    ELSE Bound(query_plan_teacher(pass.teachers, replace_from(matched(match, text), 1)),
               LAMBDA teacher : teacher_segments(pass, matched(match, text), teacher))

\* vplan_utils._loose_parse_form_pattern for the forms with a grade and a
\* section of digits: the grade, a slash, the section and, for a range of
\* sections, a hyphen and the last one
_loose_parse_form_pattern ==
    [re |-> Cat(<< Group("major", Rep(OneOf(Digits), 1, 2)), Lit(<<"/">>),
                   Group("minor", OneOf(Digits)),
                   Opt(Cat(<< Lit(<<"-">>), Group("minor_end", OneOf(Digits)) >>)) >>),
     behind |-> "none", ahead |-> "none"]

\* vplan_utils.ParsedForm: the tuple (major, sep, minor), and its to_str
ParsedForm(major, minor) == << major, <<"/">>, minor >>
ParsedForm_to_str(form) == form[1] \o form[2] \o form[3]

\* ParsedForm.from_form_match(match).expand_forms(): the forms of the range
expand_forms(text, match) ==
    LET first == int(group(match, text, "minor"))
        last == IF "minor_end" \in DOMAIN match.g
                THEN int(group(match, text, "minor_end")) ELSE first
    IN  [k \in 1..(IF last >= first THEN last - first + 1 ELSE 0) |->
            ParsedForm(group(match, text, "major"), str_int(first + k - 1))]

\* vplan_utils.parsed_forms_to_str: the forms, joined by commas
parsed_forms_to_str(forms) ==
    Join([k \in DOMAIN forms |-> ParsedForm_to_str(forms[k])], <<",", " ">>)

\* Lines 879-894 for one parsed form: the existing forms it matches.  The
\* forms have digits, so the comparison is the one of lines 885-893.
matching_forms(parsed_form, parsed_existing_forms) ==
    SelectSeq(parsed_existing_forms,
        LAMBDA existing_form :
            /\ int(existing_form[1]) = int(parsed_form[1])
            /\ existing_form[3] = parsed_form[3])

\* The loop of lines 878-897: matched_forms
RECURSIVE matched_forms(_, _)
matched_forms(parsed_forms, parsed_existing_forms) ==
    IF parsed_forms = <<>> THEN <<>>
    ELSE (IF matching_forms(Head(parsed_forms), parsed_existing_forms) # <<>>
          THEN << matching_forms(Head(parsed_forms), parsed_existing_forms)[1] >>
          ELSE <<>>)
         \o matched_forms(Tail(parsed_forms), parsed_existing_forms)

\* Lines 899-908: the segment of the matched forms, or None
form_segments(pass, forms) ==
    IF forms = <<>> THEN None
    ELSE Some(<< LessonInfoTextSegment(parsed_forms_to_str(forms),
                    Some(LessonInfoTextSegmentLink("forms",
                        [k \in DOMAIN forms |-> ParsedForm_to_str(forms[k])],
                        pass.date, None))) >>)

\* The validator of add_fuzzy_form_links (lines 874-908)
form_validator(pass, text, match) ==
    Bound(matched_forms(expand_forms(text, match), pass.parsed_existing_forms),
          LAMBDA forms : form_segments(pass, forms))

\* validator(match) of a pass: the new segments, or None
validator(pass, text, match) ==
    CASE pass.type = "teachers" -> teacher_validator(pass, text, match)
      [] pass.type = "forms" -> form_validator(pass, text, match)
      [] pass.type = "rooms" -> room_validator(pass, text, match)

\* validator(match) for the matches of the patterns at the cursor, None for
\* a pattern that does not match (lines 851-859)
validated(text, pass, i) ==
    [k \in DOMAIN pass.patterns |->
        Bound(pattern_match(pass.patterns[k], text, i),
              LAMBDA match : IF match.ok
                             THEN [match |-> match, new_segments |-> validator(pass, text, match)]
                             ELSE [match |-> match, new_segments |-> None])]

\* Lines 853-867: the cursor and the segments behind the first match the
\* validator accepts, or behind one character
advance(text, i, segments, results) ==
    LET accepted == {k \in DOMAIN results : results[k].new_segments # None}
        first == CHOOSE k \in accepted : \A j \in accepted : k <= j
    IN  IF accepted # {}
        THEN [i |-> i + results[first].match.end,
              segments |-> segments \o results[first].new_segments[1]]
        ELSE [i |-> i + 1,
              segments |-> Append(segments, LessonInfoTextSegment(<< text[i + 1] >>, None))]

\* The body of the while loop of add_fuzzy_with_validator (lines 851-867):
\* the cursor and the segments behind it.  In the loop `text` is the text
\* the patterns are matched on.
add_fuzzy_iteration(text, pass, i, segments) ==
    Bound(validated(text, pass, i), LAMBDA results : advance(text, i, segments, results))

\* The while loop from the cursor i on (lines 850-869).  An iteration that
\* leaves the cursor where it is comes back to the same matches for ever,
\* `segments` growing each time: the call ends in MemoryError.
RECURSIVE add_fuzzy_from(_, _, _, _)
add_fuzzy_from(text, pass, i, segments) ==
    IF i >= Len(text) THEN segments
    ELSE CHOOSE result \in
             { IF step.i = i THEN Raised("MemoryError")
               ELSE add_fuzzy_from(text, pass, step.i, step.segments) :
                   step \in {add_fuzzy_iteration(text, pass, i, segments)} } : TRUE

\* add_fuzzy_with_validator
add_fuzzy_with_validator(text, pass) == add_fuzzy_from(text, pass, 0, <<>>)


----------------------------------------------------------------------------
(* extract_teachers, lesson_info.py 727-802.  A lesson is a record of       *)
(* forms, periods, _lesson_date, teachers, _is_scheduled, class_opt and     *)
(* parsed_info; classes is a dict, a function from class numbers to records *)
(* of subject, group, forms and teacher; the dict `out` is a function from  *)
(* abbreviations to Teacher records.                                        *)

\* str.split(): the pieces of s between runs of white space
RECURSIVE split_whitespace(_)
split_whitespace(s) ==
    IF lstrip(s) = <<>> THEN <<>>
    ELSE LET t == lstrip(s)
             stop == IF \E k \in 1..Len(t) : t[k] \in Whitespace
                     THEN CHOOSE k \in 1..Len(t) :
                             t[k] \in Whitespace /\ \A j \in 1..(k - 1) : t[j] \notin Whitespace
                     ELSE Len(t) + 1
         IN  << SubSeq(t, 1, stop - 1) >> \o split_whitespace(SubSeq(t, stop, Len(t)))

\* str.isalpha() of one character
isalpha(c) == c \in UpperDE \cup LowerDE

\* teacher_model.Teacher(plan_short=, plan_long=, last_seen=, first_seen=)
Teacher(plan_short, plan_long, last_seen, first_seen) ==
    [plan_short |-> plan_short, plan_long |-> plan_long,
     last_seen |-> last_seen, first_seen |-> first_seen]

\* {class_nr: class_ for class_nr, class_ in classes.items() if class_nr in keep}
dict_filter(classes, keep) == [class_nr \in DOMAIN classes \cap keep |-> classes[class_nr]]

\* out_dict[key] = value
dict_set(d, key, value) ==
    [k \in DOMAIN d \cup {key} |-> IF k = key THEN value ELSE d[k]]

\* {c.teacher for c in _class.values()}
teachers_of_classes(_class) == {_class[c_id].teacher : c_id \in DOMAIN _class}

\* Lines 756-771: the classes of the course and the forms of the lesson, by
\* group or subject, and by subject when there is none
classes_of_course(lesson, classes, course) ==
    LET by_group_or_subject ==
            dict_filter(classes,
                {class_nr \in DOMAIN classes :
                    /\ course = (IF classes[class_nr].group # None
                                 THEN classes[class_nr].group
                                 ELSE classes[class_nr].subject)
                    /\ lesson.forms \subseteq classes[class_nr].forms})
        by_subject ==
            dict_filter(classes,
                {class_nr \in DOMAIN classes :
                    /\ course = classes[class_nr].subject
                    /\ lesson.forms \subseteq classes[class_nr].forms})
    IN  IF DOMAIN by_group_or_subject = {} THEN by_subject ELSE by_group_or_subject

\* Lines 774-777: the class of the lesson, when the candidates have several
\* teachers, the lesson has a class number and the class is a candidate
narrow_by_class_number(lesson, _class) ==
    IF Cardinality(teachers_of_classes(_class)) > 1 /\ lesson.class_opt.number # None
    THEN LET new_classes == dict_filter(_class, {lesson.class_opt.number})
         IN  IF DOMAIN new_classes # {} THEN new_classes ELSE _class
    ELSE _class

\* Lines 779-780: the classes whose teacher starts with the letter _name
\* starts with, when the candidates have several teachers
narrow_by_first_letter(_name, _class) ==
    IF Cardinality(teachers_of_classes(_class)) > 1
    THEN dict_filter(_class,
            {c_id \in DOMAIN _class :
                /\ _class[c_id].teacher # <<>>
                /\ _name # <<>>
                /\ _name[1] = _class[c_id].teacher[1]})
    ELSE _class

\* The narrowing with the letter looked at before the class number
narrow_letter_first(lesson, _name, _class) ==
    narrow_by_class_number(lesson, narrow_by_first_letter(_name, _class))

\* Lines 773-780: the narrowing by the class number of the lesson, then by
\* the first letter of _name
narrow(lesson, _name, _class) ==
    narrow_by_first_letter(_name, narrow_by_class_number(lesson, _class))

\* Lines 782-800 with the first of several candidates taken
accept_first_candidate(lesson, surname, _class, out_dict) ==
    IF DOMAIN _class = {} THEN out_dict
    ELSE LET abbreviation == _class[CHOOSE c_id \in DOMAIN _class : TRUE].teacher
         IN  IF ~\E k \in DOMAIN abbreviation : isalpha(abbreviation[k]) THEN out_dict
             ELSE dict_set(out_dict, abbreviation,
                      Teacher(abbreviation, surname, lesson._lesson_date, lesson._lesson_date))

\* Lines 782-800: `out` after the candidates that are left are looked at
accept_candidates(lesson, surname, _class, out_dict) ==
    IF Cardinality(teachers_of_classes(_class)) # 1 THEN out_dict           \* continue
    ELSE LET abbreviation == _class[CHOOSE c_id \in DOMAIN _class : TRUE].teacher
         IN  IF ~\E k \in DOMAIN abbreviation : isalpha(abbreviation[k]) THEN out_dict
             ELSE dict_set(out_dict, abbreviation,
                      Teacher(abbreviation, surname, lesson._lesson_date, lesson._lesson_date))

\* The body of the loops (lines 743-800) for one message: `out` after it, or
\* the exception.  surname is next(iter(message.parsed._teachers)).
extract_from_message(lesson, classes, parsed, surname, out_dict) ==
    IF ~(/\ "other_info_value" \in DOMAIN parsed
         /\ parsed.other_info_value = None
         /\ "course" \in DOMAIN parsed
         /\ "_teachers" \in DOMAIN parsed)
    THEN Return(out_dict)
    ELSE IF Len(split_whitespace(surname)) = 1 THEN Return(out_dict)   \* continue
    ELSE IF Len(split_whitespace(surname)) = 0 THEN Raise("IndexError")   \* surname.split()[1]
    ELSE Return(accept_candidates(lesson, surname,
             narrow(lesson, split_whitespace(surname)[2],
                 classes_of_course(lesson, classes, parsed.course)),
             out_dict))

\* The loops of lines 741-800 from message m of paragraph p on.  firsts[p][m]
\* is what next(iter(_teachers)) gives for the message; result is `out` so
\* far, or the exception that ended the loops.
RECURSIVE extract_from(_, _, _, _, _, _)
extract_from(lesson, classes, firsts, p, m, result) ==
    IF IsRaised(result) \/ p > Len(lesson.parsed_info.paragraphs) THEN result
    ELSE IF m > Len(lesson.parsed_info.paragraphs[p].messages)
    THEN extract_from(lesson, classes, firsts, p + 1, 1, result)
    ELSE extract_from(lesson, classes, firsts, p, m + 1,
             extract_from_message(lesson, classes,
                 lesson.parsed_info.paragraphs[p].messages[m].parsed, firsts[p][m],
                 result.returned))

\* extract_teachers: the dict whose values the call returns (the empty dict
\* for the empty tuple of a scheduled lesson), or the exception
extract_teachers(lesson, classes, firsts) ==
    IF lesson._is_scheduled THEN Return(<< >>)
    ELSE extract_from(lesson, classes, firsts, 1, 1,
             Return([plan_short \in lesson.teachers |->
                 Teacher(plan_short, None, lesson._lesson_date, lesson._lesson_date)]))

----------------------------------------------------------------------------
(* process_additional_info_line, lesson_info.py 816-839, with the passes    *)
(* (lines 872-964) and group_text_segments (lines 967-978)                  *)

\* A grouping that leaves out the segments without text and merges nothing
keep_nonempty(segments) == SelectSeq(segments, LAMBDA segment : segment.text # <<>>)

\* The loop of group_text_segments (lines 970-976); out_list is `out`
RECURSIVE group_from(_, _)
group_from(segments, out_list) ==
    IF segments = <<>> THEN out_list
    ELSE group_from(Tail(segments),
             IF Head(segments).text = <<>> THEN out_list
             ELSE IF out_list # <<>> /\ out_list[Len(out_list)].link = Head(segments).link
             THEN [out_list EXCEPT ![Len(out_list)].text = @ \o Head(segments).text]
             ELSE Append(out_list, Head(segments)))

\* group_text_segments
group_text_segments(segments) == group_from(segments, <<>>)

\* add_fuzzy_teacher_links(text, context, teachers, date) as a pass; the
\* proper nouns of the context are what nlp says
teacher_pass(context, teachers, date, not_proper_nouns) ==
    [type |-> "teachers", context |-> context, teachers |-> teachers, date |-> date,
     not_proper_nouns |-> not_proper_nouns, patterns |-> teacher_patterns]

\* add_fuzzy_form_links(text, _, parsed_existing_forms, date) as a pass
form_pass(parsed_existing_forms, date) ==
    [type |-> "forms", parsed_existing_forms |-> parsed_existing_forms, date |-> date,
     patterns |-> << _loose_parse_form_pattern >>]

\* add_fuzzy_room_links(text, _, rooms, date) as a pass; rooms is the list
\* of the rooms in the order in which the set is iterated
room_pass(rooms, date) ==
    [type |-> "rooms", rooms |-> Range(rooms), date |-> date,
     patterns |-> [k \in DOMAIN rooms |-> room_pattern(rooms[k])]]

\* The lists of a list of lists, one behind the other
RECURSIVE concat(_)
concat(lists) == IF lists = <<>> THEN <<>> ELSE Head(lists) \o concat(Tail(lists))

\* Lines 836-837: the segments of the scans one behind the other and
\* grouped, or the exception of a scan
grouped(scanned) ==
    IF \E k \in DOMAIN scanned : HasRaised(scanned[k]) THEN Raised("MemoryError")
    ELSE group_text_segments(concat(scanned))

\* A pass that scans every segment, linked or not
scan_all_segments(pass, segments) ==
    Bound([k \in DOMAIN segments |-> add_fuzzy_with_validator(segments[k].text, pass)],
          grouped)

\* One iteration of the loop over funcs (lines 830-837): `segments` after
\* the pass, or the exception of a scan
scan_unlinked_segments(pass, segments) ==
    Bound([k \in DOMAIN segments |->
              IF segments[k].link = None
              THEN add_fuzzy_with_validator(segments[k].text, pass)
              ELSE << segments[k] >>],
          grouped)

\* The loop over funcs from pass k on: the values of `segments` before the
\* loop and behind every pass with the list that is returned, or the
\* exception of a scan
RECURSIVE scan_from(_, _, _)
scan_from(passes, k, history) ==
    IF k > Len(passes) THEN [history |-> history, returned |-> history[Len(history)]]
    ELSE CHOOSE result \in
             { IF HasRaised(new_segments) THEN new_segments[1]
               ELSE scan_from(passes, k + 1, Append(history, new_segments)) :
                   new_segments \in
                       {scan_unlinked_segments(passes[k], history[Len(history)])} } : TRUE

\* process_additional_info_line: the list it returns, with the values of
\* `segments` on the way, or the exception.  rooms is the list of the rooms
\* in the order of their set, not_proper_nouns what nlp says of the text.
process_additional_info_line(text, parsed_existing_forms, teachers, date, rooms, not_proper_nouns) ==
    scan_from(<< teacher_pass(fix_typography(text), teachers, date, not_proper_nouns),
                 form_pass(parsed_existing_forms, date),
                 room_pass(rooms, date) >>,
              1, << << LessonInfoTextSegment(fix_typography(text), None) >> >>)


----------------------------------------------------------------------------
(* The methods of ParsedLessonInfo and LessonInfoParagraph that sort and    *)
(* filter, lesson_info.py 651-718, on objects.  The lists are the objects   *)
(* that change: heap[a] is the list at the address a.  A ParsedLessonInfo   *)
(* is a record of the address of its list `paragraphs`, a                   *)
(* LessonInfoParagraph a record of its index and the address of its list    *)
(* `messages`; the messages are the records LessonInfoMessage.from_str      *)
(* makes.  A method gives the heap behind the call and what it returns.     *)

\* The lists of a ParsedLessonInfo that from_str has made, on a heap of
\* their own: the lists of the messages, then the list of the paragraphs
allocate_parsed(value) ==
    [heap |-> [p \in DOMAIN value.paragraphs |-> value.paragraphs[p].messages]
              \o << [p \in DOMAIN value.paragraphs |->
                       [messages |-> p, index |-> value.paragraphs[p].index]] >>,
     returned |-> [paragraphs |-> Len(value.paragraphs) + 1]]

\* A LessonInfoParagraph with the list of its messages
paragraph_at(heap, paragraph) ==
    [messages |-> heap[paragraph.messages], index |-> paragraph.index]

\* A ParsedLessonInfo with the lists of its paragraphs and their messages
object_at(heap, self) ==
    [paragraphs |-> [p \in DOMAIN heap[self.paragraphs] |->
                        paragraph_at(heap, heap[self.paragraphs][p])]]

\* list.sort(key=lambda x: x.index) and sorted(..., key=lambda x: x.index):
\* a stable sort, an element goes in front of the first one of a greater
\* index
RECURSIVE sorted_by_index(_, _)
sorted_by_index(items, done) ==
    IF items = <<>> THEN done
    ELSE LET x == Head(items)
             greater == {i \in 1..Len(done) : x.index < done[i].index}
             at == IF greater = {} THEN Len(done) + 1
                   ELSE CHOOSE i \in greater : \A j \in greater : i <= j
         IN  sorted_by_index(Tail(items),
                 SubSeq(done, 1, at - 1) \o <<x>> \o SubSeq(done, at, Len(done)))

\* reversed(list)
reversed(list) == [k \in DOMAIN list |-> list[Len(list) + 1 - k]]

\* sorted(messages, key=key) for the keys of the model: the index, the
\* original_messages, and a key that puts the messages the other way round
sorted_messages(messages, key) ==
    IF key = "index" THEN sorted_by_index(messages, <<>>)
    ELSE IF key = "original_messages"
    THEN values(sorted_pairs([i \in DOMAIN messages |->
                    [key |-> messages[i].parsed.original_messages, value |-> messages[i]]],
                2, <<>>))
    ELSE reversed(sorted_by_index(messages, <<>>))

\* sorted(paragraphs, key=key) for the keys of the model: the index, the
\* original_messages of the messages, and a key that puts the paragraphs
\* the other way round
sorted_paragraphs(heap, paragraphs, key) ==
    IF key = "index" THEN sorted_by_index(paragraphs, <<>>)
    ELSE IF key = "original_messages"
    THEN values(sorted_pairs([p \in DOMAIN paragraphs |->
                    [key |-> [i \in DOMAIN heap[paragraphs[p].messages] |->
                                 heap[paragraphs[p].messages][i].parsed.original_messages],
                     value |-> paragraphs[p]]],
                3, <<>>))
    ELSE reversed(sorted_by_index(paragraphs, <<>>))

\* LessonInfoParagraph.sorted(key) (lines 651-652): a new paragraph with a
\* new list
LessonInfoParagraph_sorted_on(heap, self, key) ==
    [heap |-> Append(heap, sorted_messages(heap[self.messages], key)),
     returned |-> [messages |-> Len(heap) + 1, index |-> self.index]]

\* LessonInfoParagraph.sort(key) (lines 654-655): the list is sorted in place
LessonInfoParagraph_sort(heap, self, key) ==
    [heap EXCEPT ![self.messages] = sorted_messages(@, key)]

\* ParsedLessonInfo.sort(key) (lines 675-676): the list is sorted in place
ParsedLessonInfo_sort(heap, self, key) ==
    [heap EXCEPT ![self.paragraphs] = sorted_paragraphs(heap, @, key)]

\* The loop of sort_original (lines 681-682) from paragraph p on
RECURSIVE sort_messages_from(_, _, _)
sort_messages_from(heap, paragraphs, p) ==
    IF p > Len(paragraphs) THEN heap
    ELSE sort_messages_from(LessonInfoParagraph_sort(heap, paragraphs[p], "index"),
                            paragraphs, p + 1)

\* A sort_original that leaves the messages as they are
sort_paragraphs_only(heap, self) == ParsedLessonInfo_sort(heap, self, "index")

\* ParsedLessonInfo.sort_original (lines 678-682)
sort_original(heap, self) ==
    sort_messages_from(ParsedLessonInfo_sort(heap, self, "index"),
                       ParsedLessonInfo_sort(heap, self, "index")[self.paragraphs], 1)

\* The list comprehension of line 686 from paragraph p on: the heap and the
\* new paragraphs
RECURSIVE sorted_from(_, _, _, _)
sorted_from(heap, paragraphs, p, done) ==
    IF p > Len(paragraphs) THEN [heap |-> heap, returned |-> done]
    ELSE sorted_from(
             LessonInfoParagraph_sorted_on(heap, paragraphs[p], "original_messages").heap,
             paragraphs, p + 1,
             Append(done,
                 LessonInfoParagraph_sorted_on(heap, paragraphs[p], "original_messages").returned))

\* A sorted_canonical that sorts the lists of the receiver and returns it
sorted_canonical_in_place(heap, self) ==
    [heap |-> ParsedLessonInfo_sort(
                  CHOOSE h \in { sort_messages_from(heap, heap[self.paragraphs], 1) } : TRUE,
                  self, "original_messages"),
     returned |-> self]

\* ParsedLessonInfo.sorted_canonical (lines 685-690) on objects
sorted_canonical_on(heap, self) ==
    LET paragraphs == sorted_from(heap, heap[self.paragraphs], 1, <<>>)
    IN  [heap |-> Append(paragraphs.heap,
                      sorted_paragraphs(paragraphs.heap, paragraphs.returned,
                                        "original_messages")),
         returned |-> [paragraphs |-> Len(paragraphs.heap) + 1]]

\* The key of the paragraphs as they stand, without sorted_canonical
unsorted_key(heap, self) ==
    [heap |-> heap,
     returned |-> [p \in DOMAIN heap[self.paragraphs] |->
                      [m \in DOMAIN heap[heap[self.paragraphs][p].messages] |->
                          heap[heap[self.paragraphs][p].messages][m].parsed.original_messages]]]

\* ParsedLessonInfo.lesson_group_sort_key (lines 704-708) on objects
lesson_group_sort_key_on(heap, self) ==
    LET canonical == sorted_canonical_on(heap, self)
    IN  unsorted_key(canonical.heap, canonical.returned)

\* The functions filter_messages is called with: the messages no rule
\* matched, the messages a rule matched, and the first message of a paragraph
func(name, message) ==
    IF name = "failed" THEN message.parsed.type = "FailedToParse"
    ELSE IF name = "parsed" THEN message.parsed.type # "FailedToParse"
    ELSE message.index = 0

\* The loop of filter_messages (lines 713-716) from paragraph p on;
\* out_list is the address of out.paragraphs
RECURSIVE filter_from(_, _, _, _, _)
filter_from(heap, paragraphs, p, name, out_list) ==
    IF p > Len(paragraphs) THEN heap
    ELSE LET filtered == SelectSeq(heap[paragraphs[p].messages],
                                   LAMBDA message : func(name, message))
             filtered_messages == [messages |-> Len(heap) + 1, index |-> paragraphs[p].index]
         IN  filter_from(
                 IF filtered # <<>>
                 THEN [Append(heap, filtered) EXCEPT ![out_list] = Append(@, filtered_messages)]
                 ELSE Append(heap, filtered),
                 paragraphs, p + 1, name, out_list)

\* ParsedLessonInfo.filter_messages (lines 710-718) on objects
filter_messages(heap, self, name) ==
    [heap |-> filter_from(Append(heap, <<>>), heap[self.paragraphs], 1, name, Len(heap) + 1),
     returned |-> [paragraphs |-> Len(heap) + 1]]


----------------------------------------------------------------------------
(***************************************************************************)
(* SPECIFICATIONS AND CLAIMS                                               *)
(***************************************************************************)

----------------------------------------------------------------------------
(* Specification SpecSplit: split_parens_aware on every short string *)

\* Longest string handed to split_parens_aware
MaxLen == 4

\* Characters of the strings: a letter, the two separators the callers use
\* (lesson_info.py 632 and 667), and the bracket pair.
SplitAlphabet == {"a", ",", ";", "(", ")"}

\* The separators the program passes: "," (line 632) and ";" (line 667)
Seps == {<<",">>, <<";">>}

InitSplit ==
    /\ pc = "split_call"
    /\ string \in StringsUpTo(SplitAlphabet, MaxLen)
    /\ sep \in Seps
    /\ out = Unused
    /\ cur_lesson = Unused /\ cur_plan_type = Unused
    /\ message_text = Unused /\ parsed_info = Unused
    /\ info_text = Unused /\ lesson_info = Unused /\ resolve_calls = 0
    /\ LaterIdle

CallSplit ==
    /\ pc = "split_call"
    /\ out' = split_parens_aware(string, sep, DefaultParens)
    /\ pc' = "split_done"
    /\ UNCHANGED <<string, sep, lessonVars, messageVars, infoVars, laterVars>>

NextSplit == CallSplit

SpecSplit == InitSplit /\ [][NextSplit]_vars

----------------------------------------------------------------------------
(* Claims about split_parens_aware (checked under SpecSplit) *)

\* C1: joining the returned list with the separator reproduces the input
\* string exactly, whatever brackets it contains.
C1_JoinReproducesInput ==
    pc = "split_done" => Join(out, sep) = string

\* A string with a bracket and two separators has been split in three.
C1_Witness ==
    /\ pc = "split_done"
    /\ Len(out) = 3
    /\ \E i \in 1..Len(string) : string[i] = "("

\* Bracket depth after the first n characters, counted without a stack:
\* "(" opens a level, ")" closes one when one is open.
RECURSIVE BracketDepth(_, _)
BracketDepth(s, n) ==
    IF n = 0 THEN 0
    ELSE LET before == BracketDepth(s, n - 1) IN
         IF s[n] = "(" THEN before + 1
         ELSE IF s[n] = ")" /\ before > 0 THEN before - 1
         ELSE before

\* Positions (from 1) of the separators at bracket depth 0
TopLevelSeps(s, sp) ==
    {i \in 1..Len(s) : s[i] = sp[1] /\ BracketDepth(s, i - 1) = 0}

\* The k-th smallest element of a set of numbers
NthOf(T, k) == CHOOSE x \in T : Cardinality({y \in T : y < x}) = k - 1

\* The pieces between the separators at the positions T, in input order
PiecesBetween(s, T) ==
    [k \in 1..(Cardinality(T) + 1) |->
        SubSeq(s,
               IF k = 1 THEN 1 ELSE NthOf(T, k - 1) + 1,
               IF k = Cardinality(T) + 1 THEN Len(s) ELSE NthOf(T, k) - 1)]

\* Positions (from 1) in the input of the separators the result was cut at
RECURSIVE CutPositions(_, _)
CutPositions(pieces, offset) ==
    IF Len(pieces) <= 1 THEN {}
    ELSE {offset + Len(pieces[1]) + 1}
         \cup CutPositions(Tail(pieces), offset + Len(pieces[1]) + 1)

\* C2: a separator splits if and only if the stack of expected closing
\* brackets is empty there: the result has (number of separators at depth 0)
\* + 1 pieces, in input order, the last possibly empty, and a separator
\* inside a balanced "(...)" never splits.
C2_SplitsExactlyAtDepthZero ==
    pc = "split_done" =>
        /\ Len(out) = Cardinality(TopLevelSeps(string, sep)) + 1
        /\ out = PiecesBetween(string, TopLevelSeps(string, sep))
        /\ \A i, j, k \in 1..Len(string) :
              ( /\ i < j /\ j < k
                /\ string[i] = "(" /\ string[k] = ")" /\ string[j] = sep[1]
                /\ \A m \in (i + 1)..(k - 1) : string[m] \notin {"(", ")"} )
              => j \notin CutPositions(out, 0)

\* A separator inside "(...)" did not split while one outside did, and the
\* last piece is empty.
C2_Witness ==
    /\ pc = "split_done"
    /\ Len(out) = 2
    /\ out[2] = <<>>
    /\ \E j \in 1..Len(out[1]) : out[1][j] = sep[1]

\* An opening bracket at position i is unmatched when the depth never comes
\* back below its own level; a closing bracket is unmatched when nothing is
\* open.
IsUnmatchedBracket(s, i) ==
    \/ s[i] = ")" /\ BracketDepth(s, i - 1) = 0
    \/ s[i] = "(" /\ \A k \in (i + 1)..Len(s) :
                        BracketDepth(s, k) >= BracketDepth(s, i)

\* The string with every unmatched bracket replaced by a plain letter
Literalise(s) ==
    [i \in 1..Len(s) |-> IF IsUnmatchedBracket(s, i) THEN "a" ELSE s[i]]

\* C3: an unmatched bracket is treated as a literal character: neither a
\* closing bracket with no open bracket nor an opening bracket that is never
\* closed changes which separators are split points.
C3_UnmatchedBracketIsLiteral ==
    pc = "split_done" =>
        CutPositions(out, 0)
            = CutPositions(split_parens_aware(Literalise(string), sep,
                                              DefaultParens), 0)

\* An opening bracket that is never closed stands in front of a separator,
\* and the string has come back in one piece.
C3_Witness ==
    /\ pc = "split_done"
    /\ Len(out) = 1
    /\ \E i \in 1..Len(string) :
          /\ string[i] = "("
          /\ \A k \in i..Len(string) : string[k] # ")"
          /\ \E k \in (i + 1)..Len(string) : string[k] = sep[1]

----------------------------------------------------------------------------
(* Specification SpecMessage: _parse_message on one message text *)

\* The lessons: forms, periods and the date, in a common year and a leap year
Lessons ==
    { [forms |-> {<<"1", "0", "/", "1">>}, periods |-> {7},
       _lesson_date |-> [year |-> y, month |-> 6, day |-> 7]] : y \in {2023, 2024} }

PlanTypes == {"forms", "teachers", "rooms"}

\* What a message text starts with: nothing, white space, other text
Leads == { <<>>, <<" ">>, <<"x", " ">> }

\* The notices: at least one for every rule of the grammar, with single
\* periods and ranges, dates that exist, that never exist and that exist in
\* leap years only, texts that two rules match, and texts that none matches.
Cores ==
    { <<"f", "ü", "r", " ", "M", "A", " ", "A", "b", "c">>,
      <<"f", "ü", "r", " ", "H", "e", "r", "r", " ", "M", "a", "i", " ", "f", "ä", "l", "l", "t", " ", "a", "u", "s">>,
      <<"v", "e", "r", "l", "e", "g", "t", " ", "v", "o", "n", " ", "S", "t", ".", "7">>,
      <<"v", "e", "r", "l", "e", "g", "t", " ", "v", "o", "n", " ", "S", "t", ".", "1", "-", "2">>,
      <<"s", "t", "a", "t", "t", " ", "M", "o", " ", "(", "0", "5", ".", "0", "6", ".", ")", " ", "S", "t", ".", "1", "-", "2">>,
      <<"s", "t", "a", "t", "t", " ", "M", "o", " ", "(", "3", "1", ".", "0", "2", ".", ")", " ", "S", "t", ".", "1">>,
      <<"s", "t", "a", "t", "t", " ", "D", "o", " ", "(", "2", "9", ".", "0", "2", ".", ")", " ", "S", "t", ".", "1", "0", "-", "1", "2">>,
      <<"M", "A", " ", "A", "b", "c", " ", "g", "e", "h", "a", "l", "t", "e", "n", " ", "a", "m", " ", "M", "o", " ", "(", "0", "5", ".", "0", "6", ".", ")", " ", "S", "t", ".", "1", "-", "2">>,
      <<"M", "A", " ", "A", "b", "c", " ", "g", "e", "h", "a", "l", "t", "e", "n", " ", "a", "m", " ", "M", "o", " ", "(", "0", "0", ".", "0", "6", ".", ")", " ", "S", "t", ".", "3">>,
      <<"M", "A", " ", "A", "b", "c", " ", "v", "e", "r", "l", "e", "g", "t", " ", "n", "a", "c", "h", " ", "S", "t", ".", "3">>,
      <<"M", "A", " ", "A", "b", "c", " ", "v", "e", "r", "l", "e", "g", "t", " ", "n", "a", "c", "h", " ", "S", "t", ".", "5", "-", "6">>,
      <<"M", "A", " ", "H", "r", ".", " ", "O", "h", "m", " ", "v", "e", "r", "l", "e", "g", "t", " ", "n", "a", "c", "h", " ", "D", "o", " ", "(", "0", "8", ".", "0", "6", ".", ")", " ", "S", "t", ".", "3", "-", "4">>,
      <<"M", "A", " ", "A", "b", "c", " ", "v", "e", "r", "l", "e", "g", "t", " ", "n", "a", "c", "h", " ", "D", "o", " ", "(", "0", "8", ".", "1", "3", ".", ")", " ", "S", "t", ".", "3">>,
      <<"M", "A", " ", "A", "b", "c", " ", "f", "ä", "l", "l", "t", " ", "a", "u", "s">>,
      <<"P", "r", "ü", "f", "u", "n", "g", " ", "A", "b", "c", " ", "f", "ä", "l", "l", "t", " ", "a", "u", "s">>,
      <<"P", "r", "ü", "f", "u", "n", "g", " ", "A", "b", "c">>,
      <<"b", "i", "t", "t", "e", " ", "i", "n", " ", "B", "i", "b", "o", " ", "b", "e", "a", "r", "b", "e", "i", "t", "e", "n">>,
      <<"i", "n", "d", "i", "v", "i", "d", "u", "e", "l", "l", "e", " ", "N", "a", "c", "h", "b", "e", "a", "r", "b", "e", "i", "t", "u", "n", "g", " ", "d", "e", "s", " ", "a", "k", "t", "u", "e", "l", "l", "e", "n", " ", "S", "t", "o", "f", "f", "e", "s", " ", "i", "n", " ", "d", "e", "r", " ", "B", "i", "b", "o">>,
      <<"g", "e", "s", "a", "m", "t", "e", " ", "K", "l", "a", "s", "s", "e", " ", "6", "/", "2">>,
      <<"s", "e", "l", "b", "s", "t", ".", " ", "(", "v", ")">>,
      <<"A", "u", "f", "g", "a", "b", "e", "n", " ", "s", "t", "e", "h", "e", "n", " ", "i", "m", " ", "L", "e", "r", "n", "S", "a", "x">>,
      <<"A", "u", "f", "g", "a", "b", "e", "n", " ", "w", "u", "r", "d", "e", "n", " ", "e", "r", "t", "e", "i", "l", "t">>,
      <<"G", "/", " ", "R", "/", " ", "W">>,
      <<"x">>,
      <<>> }

\* What follows the notice: nothing, white space, or a notice of its own
Tails == { <<>>, <<" ">>, <<" ", "P", "r", "ü", "f", "u", "n", "g", " ", "A", "b", "c">>, <<" ", "A", "u", "f", "g", "a", "b", "e", "n", " ", "w", "u", "r", "d", "e", "n", " ", "e", "r", "t", "e", "i", "l", "t">> }

MessageTexts == { lead \o core \o tail : lead \in Leads, core \in Cores, tail \in Tails }

InitMessage ==
    /\ pc = "message_call"
    /\ message_text \in MessageTexts
    /\ cur_lesson \in Lessons
    /\ cur_plan_type \in PlanTypes
    /\ parsed_info = Unused
    /\ string = Unused /\ sep = Unused /\ out = Unused
    /\ info_text = Unused /\ lesson_info = Unused /\ resolve_calls = 0
    /\ LaterIdle

\* parsed_info = _parse_message(message_text, cur_lesson, cur_plan_type)
CallParseMessage ==
    /\ pc = "message_call"
    /\ parsed_info' = _parse_message(message_text, cur_lesson, cur_plan_type)
    /\ pc' = IF IsRaised(parsed_info') THEN "message_raised" ELSE "message_done"
    /\ UNCHANGED <<message_text, lessonVars, splitVars, infoVars, laterVars>>

NextMessage == CallParseMessage

SpecMessage == InitMessage /\ [][NextMessage]_vars


----------------------------------------------------------------------------
(* Claims about _parse_message and the grammar (checked under SpecMessage) *)

\* The text _parse_form_plan_message is handed: trimmed, and without the
\* space of a "/ " that follows a word character.
Trimmed(text) == sub_slash_space(strip(text))

\* The rules of the grammar in the order of their priority, with the variant
\* each of them stands for.
GrammarOrder ==
    << [variant |-> "InsteadOfCourse", pattern |-> substitution],
       [variant |-> "MovedFrom", pattern |-> moved_from],
       [variant |-> "MovedFrom", pattern |-> instead_of],
       [variant |-> "MovedTo", pattern |-> held_at],
       [variant |-> "MovedTo", pattern |-> moved_to],
       [variant |-> "MovedTo", pattern |-> moved_to_date],
       [variant |-> "Cancelled", pattern |-> cancelled],
       [variant |-> "Exam", pattern |-> exam],
       [variant |-> "DoAtLocation", pattern |-> do_where],
       [variant |-> "IndividualRevision", pattern |-> individual_revision],
       [variant |-> "WholeForm", pattern |-> whole_form],
       [variant |-> "DoIndependently", pattern |-> independent],
       [variant |-> "TasksInLernsax", pattern |-> tasks_in_lernsax],
       [variant |-> "TasksWereGiven", pattern |-> tasks_were_given] >>

\* The rules from InsteadOfCourse to Cancelled
LeadingRules == {k \in DOMAIN GrammarOrder : GrammarOrder[k].variant \in
                    {"InsteadOfCourse", "MovedFrom", "MovedTo", "Cancelled"}}

\* The offsets of a text at which a pattern has a match
Occurrences(pattern, text) ==
    {i \in 0..Len(text) : MatchAt(pattern, text, i) # <<>>}

\* The smallest number of a non-empty set of numbers
Min(S) == CHOOSE x \in S : \A y \in S : x <= y

\* The rules that can match a text: the rules up to Cancelled at its start,
\* the rules from Exam on anywhere in it.
MatchingRules(text) ==
    {k \in DOMAIN GrammarOrder :
        IF k \in LeadingRules
        THEN 0 \in Occurrences(GrammarOrder[k].pattern, text)
        ELSE Occurrences(GrammarOrder[k].pattern, text) # {}}

\* The rules that match at the start of a text
RulesMatchingAtStart(text) ==
    {k \in DOMAIN GrammarOrder : 0 \in Occurrences(GrammarOrder[k].pattern, text)}

\* The variant of the first rule of a set of rules, FailedToParse for none
VariantOfFirst(rules) ==
    IF rules = {} THEN "FailedToParse" ELSE GrammarOrder[Min(rules)].variant

\* C4: of the rules that can match the trimmed message, the one that comes
\* first in the fixed order decides the variant _parse_form_plan_message
\* returns, and a message no rule matches is returned as FailedToParse.
C4_FirstRuleInOrderWins ==
    (pc \in {"message_done", "message_raised"} /\ cur_plan_type = "forms") =>
        /\ ~IsRaised(parsed_info)
        /\ parsed_info.type = VariantOfFirst(MatchingRules(Trimmed(message_text)))

\* A text that two rules match has been parsed.
C4_Witness ==
    /\ pc = "message_done" /\ cur_plan_type = "forms"
    /\ Cardinality(MatchingRules(Trimmed(message_text))) >= 2
    /\ parsed_info.type = "Cancelled"

C6_NeverFails ==
    pc \in {"message_done", "message_raised"} =>
        /\ ~IsRaised(parsed_info)
        /\ parsed_info.type = "FailedToParse" =>
              /\ parsed_info.original_messages = << Trimmed(message_text) >>
              /\ parsed_info.before = <<>>
              /\ parsed_info.after = <<>>

\* The call of _parse_message ended in an exception.
C6_Witness ==
    /\ pc = "message_raised"
    /\ parsed_info = Raise("ValueError")

\* C7: before + original_messages[0] + after is the message text handed to
\* _parse_message, character for character, whether or not a rule matched.
C7_Lossless ==
    pc \in {"message_done", "message_raised"} =>
        /\ ~IsRaised(parsed_info)
        /\ parsed_info.before \o parsed_info.original_messages[1]
              \o parsed_info.after = message_text

\* A text with "/ " behind a letter has been parsed.
C7_Witness ==
    /\ pc = "message_done"
    /\ message_text = <<"G", "/", " ", "R", "/", " ", "W">>
    /\ parsed_info.original_messages = << <<"G", "/", "R", "/", "W">> >>

\* St.<a> or St.<a>-<b>
PeriodToken ==
    Cat(<< Lit(<<"S", "t", ".">>), Group("a", Rep(OneOf(Digits), 1, 2)),
           Opt(Cat(<< Lit(<<"-">>), Group("b", Rep(OneOf(Digits), 1, 2)) >>)) >>)

\* The periods the first period token of a text stands for: {a} for St.<a>,
\* {a, ..., b} for St.<a>-<b>
PeriodsWritten(text) ==
    LET i == Min(Occurrences(PeriodToken, text))
        m == re_match(PeriodToken, text, i)
    IN  IF "b" \in DOMAIN m.g
        THEN int(group(m, text, "a")) .. int(group(m, text, "b"))
        ELSE {int(group(m, text, "a"))}

\* C8: the periods of a message of a rule that captures a period token are
\* {a} for St.<a> and {a, ..., b} for St.<a>-<b>.
C8_PeriodsAreTheWrittenRange ==
    (pc = "message_done" /\ parsed_info.type \in {"MovedFrom", "MovedTo"}) =>
        parsed_info.periods = PeriodsWritten(Trimmed(message_text))

\* A range of periods behind "verlegt von" has been parsed.
C8_Witness ==
    /\ pc = "message_done"
    /\ parsed_info.type = "MovedFrom"
    /\ parsed_info.date = None
    /\ Cardinality(PeriodsWritten(Trimmed(message_text))) = 2


----------------------------------------------------------------------------
(* Specification SpecInfo: ParsedLessonInfo.from_str on a lesson's notice,  *)
(* then resolve_teachers with the teacher directories that come up          *)

\* Most fragments of a notice
MaxFragments == 3

\* Most calls of resolve_teachers on one object
MaxResolveCalls == 2

\* The fragments of a notice: texts no rule matches (one with a comma in
\* brackets), a blank one, two cancelled courses with their teachers (the
\* second teacher is in no directory), and a lesson moved from a day that
\* exists in leap years only.
Fragments ==
    { <<"D", "E", " ", "X", "y", "z", " ", "f", "ä", "l", "l", "t", " ", "a", "u", "s">>,
      <<"x">>, <<"a", " ", "(", "b", ",", " ", "c", ")">>, <<>>, <<"M", "A", " ", "A", "b", "c", " ", "f", "ä", "l", "l", "t", " ", "a", "u", "s">>, <<"s", "t", "a", "t", "t", " ", "D", "o", " ", "(", "2", "9", ".", "0", "2", ".", ")", " ", "S", "t", ".", "1">> }

\* The notices of n fragments at most, joined by "," or ";" and a space
RECURSIVE InfoTexts(_)
InfoTexts(n) ==
    IF n = 1 THEN Fragments
    ELSE InfoTexts(n - 1)
         \cup { text \o s \o <<" ">> \o fragment :
                    text \in InfoTexts(n - 1), s \in Seps, fragment \in Fragments }

\* The teacher directories: one that knows nobody, and two that know the
\* teacher under different abbreviations.
Directories ==
    { [t \in {} |-> <<>>],
      [t \in {<<"A", "b", "c">>} |-> <<"A", "B", "C">>],
      [t \in {<<"A", "b", "c">>} |-> <<"A", "B">>] }

InitInfo ==
    /\ pc = "info_call"
    /\ info_text \in InfoTexts(MaxFragments)
    /\ cur_lesson \in Lessons
    /\ cur_plan_type \in PlanTypes
    /\ lesson_info = Unused
    /\ resolve_calls = 0
    /\ string = Unused /\ sep = Unused /\ out = Unused
    /\ message_text = Unused /\ parsed_info = Unused
    /\ LaterIdle

\* lesson_info = ParsedLessonInfo.from_str(info_text, cur_lesson, cur_plan_type)
FromStr ==
    /\ pc = "info_call"
    /\ lesson_info' = ParsedLessonInfo_from_str(info_text, cur_lesson, cur_plan_type)
    /\ pc' = IF IsRaised(lesson_info') THEN "info_raised" ELSE "info_parsed"
    /\ UNCHANGED <<info_text, resolve_calls, lessonVars, splitVars, messageVars, laterVars>>

\* lesson_info.resolve_teachers(teachers)
ResolveTeachers ==
    /\ pc = "info_parsed"
    /\ resolve_calls < MaxResolveCalls
    /\ \E teachers \in Directories :
          lesson_info' = resolve_teachers(lesson_info, teachers)
    /\ resolve_calls' = resolve_calls + 1
    /\ UNCHANGED <<pc, info_text, lessonVars, splitVars, messageVars, laterVars>>

NextInfo == FromStr \/ ResolveTeachers

SpecInfo == InitInfo /\ [][NextInfo]_vars


----------------------------------------------------------------------------
(* Claims about from_str and the grouping key (checked under SpecInfo) *)

\* The text of the paragraph with the index i (from 0) of a notice
ParagraphText(info, i) ==
    strip(split_parens_aware(info, <<";">>, DefaultParens)[i + 1])

\* The fragments of a paragraph: its pieces between the commas outside
\* brackets that are not blank, trimmed, each with its position (from 0)
\* among all the pieces.
FragmentsOf(paragraph) ==
    LET pieces == split_parens_aware(paragraph, <<",">>, DefaultParens)
        nonblank == {j \in 1..Len(pieces) : strip(pieces[j]) # <<>>}
    IN  [k \in 1..Cardinality(nonblank) |->
            [text |-> strip(pieces[NthOf(nonblank, k)]),
             index |-> NthOf(nonblank, k) - 1]]

\* original_messages of the fragments j..e, one after the other
RECURSIVE OriginalsOfRun(_, _, _)
OriginalsOfRun(parsed, j, e) ==
    IF j > e THEN <<>>
    ELSE parsed[j].original_messages \o OriginalsOfRun(parsed, j + 1, e)

\* What the fragments of a paragraph become: every fragment parsed on its
\* own, every maximal run of unparsed ones as one FailedToParse in the place
\* of the run's first fragment.
MessagesOfRuns(paragraph, lesson, plan_type) ==
    LET fragments == FragmentsOf(paragraph)
        parsed == [j \in DOMAIN fragments |->
                      _parse_message(fragments[j].text, lesson, plan_type)]
        unparsed(j) == parsed[j].type = "FailedToParse"
        starts == {j \in DOMAIN fragments : j = 1 \/ ~(unparsed(j - 1) /\ unparsed(j))}
        end(j) == IF \E s \in starts : s > j
                  THEN Min({s \in starts : s > j}) - 1
                  ELSE Len(fragments)
    IN  [k \in 1..Cardinality(starts) |->
            LET j == NthOf(starts, k)
            IN  [index |-> fragments[j].index,
                 parsed |-> IF unparsed(j)
                            THEN [parsed[j] EXCEPT !.original_messages =
                                     OriginalsOfRun(parsed, j, end(j))]
                            ELSE parsed[j]]]

\* C9: in a paragraph from_str returns no two consecutive messages are both
\* FailedToParse: every maximal run of adjacent unparsed fragments is one
\* FailedToParse with the fragments' original_messages in source order, at
\* the position and with the index of the run's first fragment, and the
\* parsed messages between runs are unchanged and in order.
C9_UnparsedRunsAreMerged ==
    (pc = "info_parsed" /\ resolve_calls = 0) =>
        \A p \in DOMAIN lesson_info.paragraphs :
            LET paragraph == lesson_info.paragraphs[p]
            IN  /\ \A m \in 1..(Len(paragraph.messages) - 1) :
                      ~ /\ paragraph.messages[m].parsed.type = "FailedToParse"
                        /\ paragraph.messages[m + 1].parsed.type = "FailedToParse"
                /\ paragraph.messages
                      = MessagesOfRuns(ParagraphText(info_text, paragraph.index),
                                       cur_lesson, cur_plan_type)

\* Two unparsed fragments have become one message in front of a parsed one.
C9_Witness ==
    /\ pc = "info_parsed" /\ resolve_calls = 0
    /\ \E p \in DOMAIN lesson_info.paragraphs :
          LET messages == lesson_info.paragraphs[p].messages
          IN  /\ Len(messages) = 2
              /\ messages[1].parsed.type = "FailedToParse"
              /\ messages[1].parsed.original_messages = << <<"x">>, <<"a", " ", "(", "b", ",", " ", "c", ")">> >>
              /\ messages[2].parsed.type = "Cancelled"
              /\ messages[2].index = 2

\* The object with nothing but the original_messages of its messages
OriginalsOnly(self) ==
    [paragraphs |->
        [p \in DOMAIN self.paragraphs |->
            [index |-> 0,
             messages |->
                [m \in DOMAIN self.paragraphs[p].messages |->
                    [index |-> 0,
                     parsed |-> [original_messages |->
                        self.paragraphs[p].messages[m].parsed.original_messages]]]]]]

\* C10: lesson_group_sort_key depends on the original_messages of the
\* messages only: it is the key of the object stripped of everything else,
\* whatever other_info_value the messages have, and a call of
\* resolve_teachers, with a directory that knows the teachers or not, leaves
\* it as it was.
C10_KeyDependsOnOriginalMessagesOnly ==
    /\ [](pc = "info_parsed" =>
            lesson_group_sort_key(lesson_info)
                = lesson_group_sort_key(OriginalsOnly(lesson_info)))
    /\ [][pc = "info_parsed" =>
            lesson_group_sort_key(lesson_info') = lesson_group_sort_key(lesson_info)]_vars

\* resolve_teachers has been called twice on an object of two paragraphs,
\* and a message has its teacher resolved.
C10_Witness ==
    /\ pc = "info_parsed" /\ resolve_calls = 2
    /\ Len(lesson_info.paragraphs) >= 2
    /\ \E p \in DOMAIN lesson_info.paragraphs :
          \E m \in DOMAIN lesson_info.paragraphs[p].messages :
              /\ "other_info_value" \in DOMAIN lesson_info.paragraphs[p].messages[m].parsed
              /\ lesson_info.paragraphs[p].messages[m].parsed.other_info_value
                    = Some({ <<"A", "B", "C">> })


----------------------------------------------------------------------------
(* Specification SpecGroup: three messages of a forms plan are parsed, each *)
(* is resolved with the teacher directory of its own source, and            *)
(* is_groupable is called on every two of them                              *)

\* The texts of the messages: a lesson moved to a period, the same with text
\* behind it, a lesson moved from a period, a cancelled lesson, lessons moved
\* to and from another day, and a text no rule matches.
GroupTexts ==
    { <<"M", "A", " ", "A", "b", "c", " ", "v", "e", "r", "l", "e", "g", "t", " ", "n", "a", "c", "h", " ", "S", "t", ".", "3">>,
      <<"M", "A", " ", "A", "b", "c", " ", "v", "e", "r", "l", "e", "g", "t", " ", "n", "a", "c", "h", " ", "S", "t", ".", "3", " ", "x">>,
      <<"v", "e", "r", "l", "e", "g", "t", " ", "v", "o", "n", " ", "S", "t", ".", "7">>,
      <<"M", "A", " ", "A", "b", "c", " ", "f", "ä", "l", "l", "t", " ", "a", "u", "s">>,
      <<"M", "A", " ", "A", "b", "c", " ", "g", "e", "h", "a", "l", "t", "e", "n", " ", "a", "m", " ", "D", "o", " ", "(", "0", "8", ".", "0", "6", ".", ")", " ", "S", "t", ".", "3">>,
      <<"s", "t", "a", "t", "t", " ", "D", "o", " ", "(", "0", "8", ".", "0", "6", ".", ")", " ", "S", "t", ".", "1">>,
      <<"x">> }

InitGroup ==
    /\ pc = "group_call"
    /\ group_texts \in GroupTexts \X GroupTexts \X GroupTexts
    /\ cur_lesson \in Lessons
    /\ cur_plan_type = "forms"
    /\ group_messages = Unused
    /\ groupable = Unused
    /\ ParserIdle /\ ExtractIdle /\ LineIdle /\ RestIdle /\ RenderIdle /\ FuzzyIdle

\* group_messages[k] = _parse_message(group_texts[k], cur_lesson, cur_plan_type)
ParseGroup ==
    /\ pc = "group_call"
    /\ group_messages' =
          [k \in DOMAIN group_texts |->
              _parse_message(group_texts[k], cur_lesson, cur_plan_type)]
    /\ pc' = "group_parsed"
    /\ UNCHANGED <<group_texts, groupable, lessonVars, parserVars, extractVars, lineVars, restVars, renderVars, fuzzyVars>>

\* resolve_teachers on the notice of every message, each with a directory
ResolveGroup ==
    /\ pc = "group_parsed"
    /\ \E teachers \in [DOMAIN group_messages -> Directories] :
          group_messages' =
              [k \in DOMAIN group_messages |->
                  resolve_teachers_of_message(group_messages[k], teachers[k])]
    /\ pc' = "group_resolved"
    /\ UNCHANGED <<group_texts, groupable, lessonVars, parserVars, extractVars, lineVars, restVars, renderVars, fuzzyVars>>

\* groupable[i][j] = group_messages[i].is_groupable(group_messages[j])
CallIsGroupable ==
    /\ pc \in {"group_parsed", "group_resolved"}
    /\ groupable' =
          [i \in DOMAIN group_messages |->
              [j \in DOMAIN group_messages |->
                  is_groupable(group_messages[i], group_messages[j])]]
    /\ pc' = "group_done"
    /\ UNCHANGED <<group_texts, group_messages, lessonVars, parserVars, extractVars, lineVars, restVars, renderVars, fuzzyVars>>

NextGroup == ParseGroup \/ ResolveGroup \/ CallIsGroupable

SpecGroup == InitGroup /\ [][NextGroup]_vars

----------------------------------------------------------------------------
(* Claims about is_groupable (checked under SpecGroup) *)

\* The field `name` of two messages is the same, or neither has it
SameField(a, b, name) ==
    IF name \in DOMAIN a /\ name \in DOMAIN b THEN a[name] = b[name]
    ELSE name \notin DOMAIN a /\ name \notin DOMAIN b

\* The variants that are moved or have a course
MovedOrCourseVariants == {"MovedFrom", "MovedTo"} \cup CourseVariants

\* What the claim calls groupable
GroupableAsClaimed(a, b) ==
    /\ a.type = b.type
    /\ a.before = b.before
    /\ a.after = b.after
    /\ a.type \in MovedOrCourseVariants =>
          /\ SameField(a, b, "course")
          /\ SameField(a, b, "other_info_value")
          /\ SameField(a, b, "date")
          /\ SameField(a, b, "plan_type")

\* C11: for any two parsed messages a and b of any variant, a.is_groupable(b)
\* is defined, and it is true exactly when a and b are the same variant with
\* equal before and equal after and, for MovedFrom, MovedTo and the other
\* variants with a course, equal course, equal resolved other_info_value,
\* equal date and equal plan_type.
C11_GroupableIffSameVariantAndFields ==
    pc = "group_done" =>
        \A i, j \in DOMAIN group_messages :
            groupable[i][j] =
                Return(GroupableAsClaimed(group_messages[i], group_messages[j]))

\* is_groupable was called on a message of a variant without the method, on
\* two MovedTo messages that differ in `after` and on two that differ in the
\* resolved other_info_value only, and on a MovedFrom and a MovedTo message.
C11_Witness ==
    /\ pc = "group_done"
    /\ \E i \in DOMAIN group_messages :
          /\ group_messages[i].type = "Cancelled"
          /\ groupable[i][i] = Raise("AttributeError")
    /\ \E i, j \in DOMAIN group_messages :
          /\ group_messages[i].type = "MovedTo"
          /\ group_messages[j].type = "MovedTo"
          /\ \/ group_messages[i].after # group_messages[j].after
             \/ group_messages[i].other_info_value # group_messages[j].other_info_value
          /\ groupable[i][j] = Return(TRUE)

\* The three messages are of one variant, and their teachers are resolved
OneVariantResolved ==
    /\ \A i, j \in DOMAIN group_messages :
          group_messages[i].type = group_messages[j].type
    /\ \A i \in DOMAIN group_messages :
          "other_info_value" \in DOMAIN group_messages[i] =>
              group_messages[i].other_info_value # None

\* is_groupable is reflexive, symmetric and transitive on the three messages
IsEquivalence ==
    /\ \A i \in DOMAIN groupable : groupable[i][i] = Return(TRUE)
    /\ \A i, j \in DOMAIN groupable :
          groupable[i][j] = Return(TRUE) => groupable[j][i] = Return(TRUE)
    /\ \A i, j, k \in DOMAIN groupable :
          groupable[i][j] = Return(TRUE) /\ groupable[j][k] = Return(TRUE)
              => groupable[i][k] = Return(TRUE)

\* C12: restricted to messages of one variant with resolved entities,
\* is_groupable is an equivalence relation: a.is_groupable(a) holds,
\* a.is_groupable(b) implies b.is_groupable(a), and a.is_groupable(b) with
\* b.is_groupable(c) implies a.is_groupable(c).
C12_EquivalenceOnOneVariant ==
    pc = "group_done" /\ OneVariantResolved => IsEquivalence

\* The part of C12 the code has: on three MovedFrom or three MovedTo
\* messages, resolved or not, is_groupable is an equivalence relation.
C12_EquivalenceOnMoved ==
    /\ pc = "group_done"
    /\ \A i, j \in DOMAIN group_messages :
          group_messages[i].type = group_messages[j].type
    /\ group_messages[1].type \in {"MovedFrom", "MovedTo"}
    => IsEquivalence

\* is_groupable was called on three cancelled lessons with resolved teachers,
\* and on itself it raised.
C12_Witness ==
    /\ pc = "group_done"
    /\ OneVariantResolved
    /\ group_messages[1].type = "Cancelled"
    /\ groupable[1][1] = Raise("AttributeError")


----------------------------------------------------------------------------
(* Claims about resolve_teachers (checked under SpecInfo) *)

\* The messages of a notice, as the set of their places <<paragraph, message>>
MessagePlaces(self) ==
    UNION { {<<p, m>> : m \in DOMAIN self.paragraphs[p].messages} :
                p \in DOMAIN self.paragraphs }

\* The message at a place
ParsedAt(self, place) == self.paragraphs[place[1]].messages[place[2]].parsed

\* What the claim says of one message: `new` is `old` after resolve_teachers
\* with the directory `teachers`.
ResolvedAsClaimed(old, new, teachers) ==
    /\ DOMAIN new = DOMAIN old
    /\ \A field \in DOMAIN old \ {"other_info_value"} : new[field] = old[field]
    /\ old.type \in CourseVariants =>
          new.other_info_value =
              IF \A teacher_str \in old._teachers : teacher_str \in DOMAIN teachers
              THEN Some({teachers[teacher_str] : teacher_str \in old._teachers})
              ELSE None
    /\ old.type \notin CourseVariants => new = old

\* C13: resolve_teachers never aborts on a lookup failure: for each message
\* with a course, other_info_value becomes the set of the plan_short of all
\* its _teachers when every lookup succeeds and None when one lookup raises
\* LookupError; a failure in one message does not stop or alter the
\* resolution of the others, and _teachers, original_messages, before and
\* after of every message are left unchanged.
C13_ResolveNeverAborts ==
    [][ resolve_calls' # resolve_calls =>
          /\ ~IsRaised(lesson_info')
          /\ DOMAIN lesson_info'.paragraphs = DOMAIN lesson_info.paragraphs
          /\ MessagePlaces(lesson_info') = MessagePlaces(lesson_info)
          /\ \E teachers \in Directories :
                \A place \in MessagePlaces(lesson_info) :
                    ResolvedAsClaimed(ParsedAt(lesson_info, place),
                                      ParsedAt(lesson_info', place), teachers)
      ]_vars

\* resolve_teachers has run on a notice in which the lookup failed for a
\* message and succeeded for a message behind it.
C13_Witness ==
    /\ pc = "info_parsed"
    /\ resolve_calls > 0
    /\ \E first, second \in MessagePlaces(lesson_info) :
          /\ Before(first, second)
          /\ ParsedAt(lesson_info, first).type \in CourseVariants
          /\ ParsedAt(lesson_info, second).type \in CourseVariants
          /\ ParsedAt(lesson_info, first).other_info_value = None
          /\ ParsedAt(lesson_info, second).other_info_value # None


----------------------------------------------------------------------------
(* Specification SpecRender: a message of a forms plan is parsed, resolved  *)
(* with a teacher directory and displayed for the day of its lesson         *)

\* The texts of the messages: lessons moved to a period of the same day and
\* to days before, on and after the day of the lesson (7 June) under both
\* wordings, a substituted and two cancelled courses, lessons moved from a
\* period and from a day, a whole form, an exam, and texts no rule matches.
RenderTexts ==
    { <<"M", "A", " ", "A", "b", "c", " ", "v", "e", "r", "l", "e", "g", "t", " ", "n", "a", "c", "h", " ", "S", "t", ".", "3">>,
      <<"M", "A", " ", "A", "b", "c", " ", "v", "e", "r", "l", "e", "g", "t", " ", "n", "a", "c", "h", " ", "S", "t", ".", "3", " ", "x">>,
      <<"M", "A", " ", "A", "b", "c", " ", "g", "e", "h", "a", "l", "t", "e", "n", " ", "a", "m", " ", "M", "o", " ", "(", "0", "5", ".", "0", "6", ".", ")", " ", "S", "t", ".", "1", "-", "2">>,
      <<"M", "A", " ", "A", "b", "c", " ", "g", "e", "h", "a", "l", "t", "e", "n", " ", "a", "m", " ", "D", "o", " ", "(", "0", "8", ".", "0", "6", ".", ")", " ", "S", "t", ".", "3">>,
      <<"M", "A", " ", "A", "b", "c", " ", "v", "e", "r", "l", "e", "g", "t", " ", "n", "a", "c", "h", " ", "M", "o", " ", "(", "0", "5", ".", "0", "6", ".", ")", " ", "S", "t", ".", "3">>,
      <<"M", "A", " ", "A", "b", "c", " ", "v", "e", "r", "l", "e", "g", "t", " ", "n", "a", "c", "h", " ", "M", "i", " ", "(", "0", "7", ".", "0", "6", ".", ")", " ", "S", "t", ".", "3">>,
      <<"M", "A", " ", "A", "b", "c", " ", "v", "e", "r", "l", "e", "g", "t", " ", "n", "a", "c", "h", " ", "D", "o", " ", "(", "0", "8", ".", "0", "6", ".", ")", " ", "S", "t", ".", "5", "-", "6">>,
      <<"f", "ü", "r", " ", "M", "A", " ", "A", "b", "c">>,
      <<"M", "A", " ", "A", "b", "c", " ", "f", "ä", "l", "l", "t", " ", "a", "u", "s">>,
      <<"D", "E", " ", "X", "y", "z", " ", "f", "ä", "l", "l", "t", " ", "a", "u", "s">>,
      <<"v", "e", "r", "l", "e", "g", "t", " ", "v", "o", "n", " ", "S", "t", ".", "7">>,
      <<"s", "t", "a", "t", "t", " ", "M", "o", " ", "(", "0", "5", ".", "0", "6", ".", ")", " ", "S", "t", ".", "1", "-", "2">>,
      <<"g", "e", "s", "a", "m", "t", "e", " ", "K", "l", "a", "s", "s", "e", " ", "6", "/", "2">>,
      <<"x", " ", "P", "r", "ü", "f", "u", "n", "g", " ", "A", "b", "c">>,
      <<"x", " ", "-", " ", "y">> }

\* The orders in which ', '.join can iterate over original_other_info_value
IterationOrders(self) ==
    IF "_teachers" \in DOMAIN self /\ original_other_info_value(self) # None
    THEN Orders(original_other_info_value(self)[1])
    ELSE {<<>>}

InitRender ==
    /\ pc = "render_call"
    /\ render_text \in RenderTexts
    /\ cur_lesson \in Lessons
    /\ cur_plan_type = "forms"
    /\ render_message = Unused
    /\ text_segments = Unused
    /\ ParserIdle /\ ExtractIdle /\ LineIdle /\ RestIdle /\ GroupIdle /\ FuzzyIdle

\* render_message = _parse_message(render_text, cur_lesson, cur_plan_type)
ParseRender ==
    /\ pc = "render_call"
    /\ render_message' = _parse_message(render_text, cur_lesson, cur_plan_type)
    /\ pc' = "render_parsed"
    /\ UNCHANGED <<render_text, text_segments, lessonVars, parserVars, extractVars, lineVars, restVars, groupVars, fuzzyVars>>

\* resolve_teachers on the notice of the message
ResolveRender ==
    /\ pc = "render_parsed"
    /\ \E teachers \in Directories :
          render_message' = resolve_teachers_of_message(render_message, teachers)
    /\ pc' = "render_resolved"
    /\ UNCHANGED <<render_text, text_segments, lessonVars, parserVars, extractVars, lineVars, restVars, groupVars, fuzzyVars>>

\* text_segments = render_message.to_text_segments(lesson_date, block_config)
CallToTextSegments ==
    /\ pc \in {"render_parsed", "render_resolved"}
    /\ \E order \in IterationOrders(render_message) :
          text_segments' = to_text_segments(render_message, cur_lesson._lesson_date, order)
    /\ pc' = "render_done"
    /\ UNCHANGED <<render_text, render_message, lessonVars, parserVars, extractVars, lineVars, restVars, groupVars, fuzzyVars>>

NextRender == ParseRender \/ ResolveRender \/ CallToTextSegments

SpecRender == InitRender /\ [][NextRender]_vars


----------------------------------------------------------------------------
(* Claims about to_text_segments (checked under SpecRender) *)

\* The segments of _to_text_segments: text_segments without the segment of
\* `before` in front of them
OwnSegments ==
    IF render_message.before # <<>> THEN Tail(text_segments) ELSE text_segments

\* A list holds the elements of a set in ascending order
IsSortedInts(list, S) ==
    /\ Range(list) = S
    /\ \A i, j \in DOMAIN list : i < j => list[i] < list[j]

IsSortedStrs(list, S) ==
    /\ Range(list) = S
    /\ \A i, j \in DOMAIN list : i < j => less_than(list[i], list[j], 1)

\* The three cases of the claim, for the segment of the word and the linked
\* segment of the periods
MovedToAsClaimed(self, lesson_date, word, label) ==
    /\ self.date = None =>
          /\ word = LessonInfoTextSegment(<<" ", "v", "e", "r", "l", "e", "g", "t", " ", "n", "a", "c", "h", " ">>, None)
          /\ label.text = get_label_of_periods(self.periods)
          /\ label.link[1].date = lesson_date
    /\ self.date # None /\ toordinal(self.date[1]) < toordinal(lesson_date) =>
          /\ word = LessonInfoTextSegment(<<" ", "g", "e", "h", "a", "l", "t", "e", "n", " ", "a", "m", " ">>, None)
          /\ label.text = DatedLabel(self)
          /\ label.link[1].date = self.date[1]
    /\ self.date # None /\ toordinal(self.date[1]) >= toordinal(lesson_date) =>
          /\ word = LessonInfoTextSegment(<<" ", "v", "e", "r", "l", "e", "g", "t", " ", "n", "a", "c", "h", " ">>, None)
          /\ label.text = DatedLabel(self)
          /\ label.link[1].date = self.date[1]
    /\ label.link[1].type = self.plan_type
    /\ IsSortedStrs(label.link[1].value, self.plan_value)
    /\ label.link[1].periods # None
    /\ IsSortedInts(label.link[1].periods[1], self.periods)

\* C14: how a MovedTo message is displayed is decided by its date and
\* lesson_date in three exclusive cases: without a date ' verlegt nach ' and
\* the label of the periods, with link date lesson_date; with a date before
\* lesson_date ' gehalten am ' and weekday, date and label, with the date of
\* the message as link date; with a date on or after lesson_date
\* ' verlegt nach ' and weekday, date and label, with the date of the message
\* as link date.  In every case the link of the periods has plan_type, the
\* sorted plan_value and the sorted periods.
C14_MovedToThreeCases ==
    pc = "render_done" /\ render_message.type = "MovedTo" =>
        /\ ~HasRaised(text_segments)
        /\ Len(OwnSegments) >= 4
        /\ MovedToAsClaimed(render_message, cur_lesson._lesson_date,
                            OwnSegments[3], OwnSegments[4])

\* A message written as 'verlegt nach' a day before the lesson's day has been
\* displayed, as 'gehalten am'.
C14_Witness ==
    /\ pc = "render_done"
    /\ render_message.type = "MovedTo"
    /\ render_message.date # None
    /\ toordinal(render_message.date[1]) < toordinal(cur_lesson._lesson_date)
    /\ render_message.original_messages = << <<"M", "A", " ", "A", "b", "c", " ", "v", "e", "r", "l", "e", "g", "t", " ", "n", "a", "c", "h", " ", "M", "o", " ", "(", "0", "5", ".", "0", "6", ".", ")", " ", "S", "t", ".", "3">> >>
    /\ OwnSegments[3].text = <<" ", "g", "e", "h", "a", "l", "t", "e", "n", " ", "a", "m", " ">>

\* The segment with the teachers of a message with a course: it follows the
\* segment of the course
OtherInfoSegment ==
    OwnSegments[IF render_message.type = "InsteadOfCourse" THEN 3 ELSE 2]

\* C15: the course segment of a message with a course (InsteadOfCourse,
\* MovedTo, Cancelled) has a link exactly when the teachers were resolved
\* (other_info_value is a set that is not empty); with other_info_value None
\* the message is displayed without failure, the segment unlinked and its
\* text the raw teacher references joined by ', '; a link holds the sorted
\* resolved set.
C15_CourseSegmentLinkedIffResolved ==
    pc = "render_done" /\ render_message.type \in CourseVariants =>
        /\ ~HasRaised(text_segments)
        /\ OtherInfoSegment.link # None
              <=> render_message.other_info_value \notin {None, Some({})}
        /\ render_message.other_info_value = None =>
              /\ OtherInfoSegment.link = None
              /\ OtherInfoSegment.text
                    \in {Join(order, <<",", " ">>) : order \in Orders(render_message._teachers)}
        /\ OtherInfoSegment.link # None =>
              IsSortedStrs(OtherInfoSegment.link[1].value, render_message.other_info_value[1])

\* A cancelled course whose teacher is in no directory has been displayed
\* after resolve_teachers, the teacher as written and without a link.
C15_Witness ==
    /\ pc = "render_done"
    /\ render_message.type = "Cancelled"
    /\ render_message._teachers = { <<"X", "y", "z">> }
    /\ render_message.other_info_value = None
    /\ OtherInfoSegment = LessonInfoTextSegment(<<"X", "y", "z">>, None)


----------------------------------------------------------------------------
(* Specification SpecFuzzy: add_fuzzy_room_links calls                      *)
(* add_fuzzy_with_validator, whose while loop runs one iteration at a time  *)

\* Longest text handed to add_fuzzy_room_links
MaxTextLen == 4

\* Most iterations of the while loop that are followed
MaxIterations == 5

\* Characters of the texts: a digit and a letter of the rooms, white space
\* and a closing bracket
FuzzyAlphabet == {"1", "x", " ", ")"}

\* The sets of rooms: one room, two rooms, a room with a dot in its name and
\* a room without a name
RoomSets == { {<<"1">>}, {<<"1">>, <<"x", "1">>}, {<<"1", ".", "1">>}, {<<>>} }

\* The days the links are for
FuzzyDates == {lesson._lesson_date : lesson \in Lessons}

\* add_fuzzy_room_links (line 964): the patterns of the rooms, in an order in
\* which the set of the rooms is iterated
RoomPasses ==
    { [type |-> "rooms", rooms |-> Range(order), date |-> date,
       patterns |-> [k \in DOMAIN order |-> room_pattern(order[k])]] :
          date \in FuzzyDates, order \in UNION {Orders(rooms) : rooms \in RoomSets} }

\* add_fuzzy_room_links(fuzzy_text, _, rooms, date) up to `i = 0` (line 849)
InitFuzzy ==
    /\ pc = "fuzzy_loop"
    /\ fuzzy_text \in StringsUpTo(FuzzyAlphabet, MaxTextLen)
    /\ fuzzy_pass \in RoomPasses
    /\ fuzzy_i = 0
    /\ fuzzy_segments = <<>>
    /\ fuzzy_iterations = 0
    /\ cur_lesson = Unused /\ cur_plan_type = Unused
    /\ ParserIdle /\ ExtractIdle /\ LineIdle /\ RestIdle /\ GroupIdle /\ RenderIdle

\* One iteration of the while loop (lines 850-867)
FuzzyIteration ==
    /\ pc = "fuzzy_loop"
    /\ fuzzy_i < Len(fuzzy_text)
    /\ fuzzy_iterations < MaxIterations
    /\ fuzzy_i' = add_fuzzy_iteration(fuzzy_text, fuzzy_pass, fuzzy_i, fuzzy_segments).i
    /\ fuzzy_segments' =
          add_fuzzy_iteration(fuzzy_text, fuzzy_pass, fuzzy_i, fuzzy_segments).segments
    /\ fuzzy_iterations' = fuzzy_iterations + 1
    /\ UNCHANGED <<pc, fuzzy_text, fuzzy_pass, lessonVars, parserVars, extractVars, lineVars, restVars, groupVars, renderVars>>

\* The loop ends and the segments are returned (lines 850 and 869)
FuzzyReturn ==
    /\ pc = "fuzzy_loop"
    /\ fuzzy_i >= Len(fuzzy_text)
    /\ pc' = "fuzzy_done"
    /\ UNCHANGED <<fuzzyVars, lessonVars, parserVars, extractVars, lineVars, restVars, groupVars, renderVars>>

NextFuzzy == FuzzyIteration \/ FuzzyReturn

SpecFuzzy == InitFuzzy /\ [][NextFuzzy]_vars


----------------------------------------------------------------------------
(* Claims about add_fuzzy_with_validator and add_fuzzy_room_links (checked  *)
(* under SpecFuzzy)                                                         *)

\* The texts of the segments, one behind the other
TextOf(segments) == Join([k \in DOMAIN segments |-> segments[k].text], <<>>)

\* C16: add_fuzzy_with_validator covers every character of the text exactly
\* once: behind an accepted match the cursor stands at the end of the matched
\* span, behind a position where no pattern is accepted it has moved on by
\* the one character that was emitted unlinked; so the texts of the segments
\* read so far are the text up to the cursor, and the texts of all segments
\* returned are the text, also when a match starts behind offset 0.
C16_SegmentsCoverTextOnce ==
    pc \in {"fuzzy_loop", "fuzzy_done"} =>
        /\ fuzzy_i <= Len(fuzzy_text)
        /\ TextOf(fuzzy_segments) = Slice(fuzzy_text, 0, fuzzy_i)

\* The call has returned, a room was linked behind the start of the text, and
\* the segments do not make up the text.
C16_Witness ==
    /\ pc = "fuzzy_done"
    /\ \E k \in DOMAIN fuzzy_segments :
          k > 1 /\ fuzzy_segments[k].link # None /\ fuzzy_segments[k].text # <<>>
    /\ TextOf(fuzzy_segments) # fuzzy_text

\* The places [from, to) of the text where a room stands as a whole word
RoomOccurrences ==
    { <<from, to>> \in (0..Len(fuzzy_text)) \X (0..Len(fuzzy_text)) :
        /\ from < to
        /\ Slice(fuzzy_text, from, to) \in fuzzy_pass.rooms
        /\ from = 0 \/ fuzzy_text[from] \notin WordChars
        /\ to = Len(fuzzy_text) \/ fuzzy_text[to + 1] \notin WordChars }

\* The place of the segment k, when the segments make up the text
PlaceOf(segments, k) ==
    << Len(TextOf(SubSeq(segments, 1, k - 1))), Len(TextOf(SubSeq(segments, 1, k))) >>

\* C17: add_fuzzy_room_links links every occurrence of a known room that
\* stands as a whole word in the text (between white space, punctuation or
\* the ends of the text) and nothing else; the text of a linked segment is
\* the room, its link is {rooms, [room], date}, and all other text is kept,
\* unlinked.
C17_LinksExactlyTheRooms ==
    pc = "fuzzy_done" =>
        /\ TextOf(fuzzy_segments) = fuzzy_text
        /\ \A k \in DOMAIN fuzzy_segments :
              fuzzy_segments[k].link # None =>
                  /\ fuzzy_segments[k].text \in fuzzy_pass.rooms
                  /\ fuzzy_segments[k].link =
                        Some(LessonInfoTextSegmentLink("rooms", << fuzzy_segments[k].text >>,
                                                       fuzzy_pass.date, None))
                  /\ PlaceOf(fuzzy_segments, k) \in RoomOccurrences
        /\ \A place \in RoomOccurrences :
              \E k \in DOMAIN fuzzy_segments :
                  fuzzy_segments[k].link # None /\ PlaceOf(fuzzy_segments, k) = place

\* The call has returned for a text that ends with a room as a whole word,
\* and no segment is linked.
C17_Witness ==
    /\ pc = "fuzzy_done"
    /\ \E place \in RoomOccurrences : place[2] = Len(fuzzy_text)
    /\ \A k \in DOMAIN fuzzy_segments : fuzzy_segments[k].link = None
    /\ TextOf(fuzzy_segments) = fuzzy_text

\* C19: add_fuzzy_with_validator terminates for every text, list of patterns
\* and validator: the cursor is greater after every iteration of the loop
\* (also when the accepted match is empty, as for a room without a name), so
\* there are at most as many iterations as the text has characters.
C19_CursorIncreasesEveryIteration ==
    [][ fuzzy_iterations' # fuzzy_iterations =>
            /\ fuzzy_i' > fuzzy_i
            /\ fuzzy_iterations' <= Len(fuzzy_text)
      ]_vars

\* The loop has run more often than the text has characters, and the cursor
\* is where it started, behind it the segments of empty matches.
C19_Witness ==
    /\ pc = "fuzzy_loop"
    /\ fuzzy_iterations > Len(fuzzy_text)
    /\ fuzzy_i = 0
    /\ Len(fuzzy_segments) = fuzzy_iterations
    /\ \A k \in DOMAIN fuzzy_segments :
          fuzzy_segments[k].text = <<>> /\ fuzzy_segments[k].link # None


----------------------------------------------------------------------------
(* Specification SpecExtract: the notice of a lesson of a forms plan is     *)
(* parsed, its teachers are resolved or not, and extract_teachers is called *)
(* with the lesson and the classes of the plan                              *)

\* The notices: cancelled and moved courses whose teacher is written with a
\* salutation, one whose teacher is written as one word, a course no class
\* may teach, and a text no rule matches
ExtractTexts ==
    { <<"M", "A", " ", "H", "r", ".", " ", "O", "h", "m", " ", "f", "ä", "l", "l", "t", " ", "a", "u", "s">>,
      <<"M", "A", " ", "A", "b", "c", " ", "f", "ä", "l", "l", "t", " ", "a", "u", "s", ",", " ", "M", "A", " ", "H", "r", ".", " ", "O", "h", "m", " ", "f", "ä", "l", "l", "t", " ", "a", "u", "s">>,
      <<"D", "E", " ", "F", "r", ".", " ", "U", "t", "e", " ", "f", "ä", "l", "l", "t", " ", "a", "u", "s", ";", " ", "M", "A", " ", "H", "r", ".", " ", "O", "h", "m", " ", "f", "ä", "l", "l", "t", " ", "a", "u", "s">>,
      <<"x", ";", " ", "M", "A", " ", "F", "r", ".", " ", "A", "l", "t", " ", "v", "e", "r", "l", "e", "g", "t", " ", "n", "a", "c", "h", " ", "S", "t", ".", "3">> }

\* The lessons: with and without teachers of their own, scheduled or not,
\* with and without a class number
ExtractLessons ==
    { lesson @@ [teachers |-> teachers, _is_scheduled |-> _is_scheduled,
                 class_opt |-> [number |-> number], parsed_info |-> Unused] :
        lesson \in Lessons,
        teachers \in { {}, {<<"X", "Y", "Z">>}, {<<"O", "H", "M">>} },
        _is_scheduled \in BOOLEAN,
        number \in { None, <<"1">>, <<"3">> } }

\* The classes: of the course and the form of the lesson with teachers that
\* share a first letter or not and with one that has no letter, with a group
\* name, of another form, and of another subject without a teacher
ClassRecords ==
    { [subject |-> <<"M", "A">>, group |-> None, forms |-> {<<"1", "0", "/", "1">>}, teacher |-> teacher] :
        teacher \in { <<"O", "H", "M">>, <<"O", "T", "T">>, <<"A", "B", "C">>, <<"1", "2">> } }
    \cup { [subject |-> <<"M", "A">>, group |-> <<"m", "a", "1">>, forms |-> {<<"1", "0", "/", "1">>, <<"1", "0", "/", "2">>},
            teacher |-> <<"O", "H", "M">>],
           [subject |-> <<"M", "A">>, group |-> None, forms |-> {<<"1", "0", "/", "2">>}, teacher |-> <<"O", "H", "M">>],
           [subject |-> <<"D", "E">>, group |-> None, forms |-> {<<"1", "0", "/", "1">>}, teacher |-> <<>>] }

ClassNumbers == { <<"1">>, <<"2">>, <<"3">> }

\* Most classes of a plan
MaxClasses == 2

\* The dicts of the classes of a plan
ClassDicts ==
    UNION { [numbers -> ClassRecords] :
                numbers \in {S \in SUBSET ClassNumbers : Cardinality(S) <= MaxClasses} }

\* The teacher directories: those of Directories and one that knows Hr. Ohm
ExtractDirectories == Directories \cup { [t \in {<<"H", "r", ".", " ", "O", "h", "m">>} |-> <<"O", "H", "M">>] }

\* What next(iter(message.parsed._teachers)) may give for a message
FirstOf(parsed) == IF "_teachers" \in DOMAIN parsed THEN parsed._teachers ELSE {None}

\* What it may give for the messages of a notice: firsts[p][m] for message m
\* of paragraph p
Firsts(self) ==
    LET all == UNION { UNION { FirstOf(self.paragraphs[p].messages[m].parsed) :
                                   m \in DOMAIN self.paragraphs[p].messages } :
                           p \in DOMAIN self.paragraphs }
        rows == UNION { [DOMAIN self.paragraphs[p].messages -> all] :
                            p \in DOMAIN self.paragraphs }
    IN  { firsts \in [DOMAIN self.paragraphs -> rows] :
            \A p \in DOMAIN self.paragraphs :
                /\ DOMAIN firsts[p] = DOMAIN self.paragraphs[p].messages
                /\ \A m \in DOMAIN firsts[p] :
                      firsts[p][m] \in FirstOf(self.paragraphs[p].messages[m].parsed) }

InitExtract ==
    /\ pc = "extract_call"
    /\ extract_text \in ExtractTexts
    /\ extract_lesson \in ExtractLessons
    /\ extract_classes = Unused
    /\ extract_out = Unused
    /\ cur_lesson = Unused /\ cur_plan_type = "forms"
    /\ ParserIdle /\ GroupIdle /\ RenderIdle /\ FuzzyIdle /\ LineIdle /\ RestIdle

\* lesson.parsed_info = ParsedLessonInfo.from_str(extract_text, lesson, "forms")
ParseExtract ==
    /\ pc = "extract_call"
    /\ extract_lesson' =
          [extract_lesson EXCEPT !.parsed_info =
              ParsedLessonInfo_from_str(extract_text, extract_lesson, cur_plan_type)]
    /\ pc' = "extract_parsed"
    /\ UNCHANGED <<extract_text, extract_classes, extract_out, lessonVars, parserVars,
                   groupVars, renderVars, fuzzyVars, lineVars, restVars>>

\* lesson.parsed_info.resolve_teachers(teachers)
ResolveExtract ==
    /\ pc = "extract_parsed"
    /\ \E teachers \in ExtractDirectories :
          extract_lesson' =
              [extract_lesson EXCEPT !.parsed_info = resolve_teachers(@, teachers)]
    /\ pc' = "extract_resolved"
    /\ UNCHANGED <<extract_text, extract_classes, extract_out, lessonVars, parserVars,
                   groupVars, renderVars, fuzzyVars, lineVars, restVars>>

\* extract_out = extract_teachers(extract_lesson, classes, logger=logger)
CallExtractTeachers ==
    /\ pc \in {"extract_parsed", "extract_resolved"}
    /\ \E classes \in ClassDicts, firsts \in Firsts(extract_lesson.parsed_info) :
          /\ extract_classes' = classes
          /\ extract_out' = extract_teachers(extract_lesson, classes, firsts)
    /\ pc' = "extract_done"
    /\ UNCHANGED <<extract_text, extract_lesson, lessonVars, parserVars,
                   groupVars, renderVars, fuzzyVars, lineVars, restVars>>

NextExtract == ParseExtract \/ ResolveExtract \/ CallExtractTeachers

SpecExtract == InitExtract /\ [][NextExtract]_vars


----------------------------------------------------------------------------
(* Claims about extract_teachers (checked under SpecExtract) *)

\* The classes that remain for a course and the second word `name` of a
\* teacher reference after the narrowing steps
RemainingClasses(lesson, classes, course, name) ==
    LET fits(n) == lesson.forms \subseteq classes[n].forms
        named(n) == IF classes[n].group # <<>> THEN classes[n].group ELSE classes[n].subject
        by_name == {n \in DOMAIN classes : fits(n) /\ named(n) = course}
        by_subject == {n \in DOMAIN classes : fits(n) /\ classes[n].subject = course}
        candidates == IF by_name # {} THEN by_name ELSE by_subject
        several(S) == \E a \in S, b \in S : classes[a].teacher # classes[b].teacher
        of_number == IF several(candidates) /\ lesson.class_opt.number \in candidates
                     THEN {lesson.class_opt.number} ELSE candidates
    IN  IF several(of_number)
        THEN {n \in of_number : classes[n].teacher # <<>> /\ classes[n].teacher[1] = name[1]}
        ELSE of_number

\* The abbreviations that remain for a message and its teacher reference
RemainingAbbreviations(lesson, classes, parsed, surname) ==
    { classes[n].teacher :
        n \in RemainingClasses(lesson, classes, parsed.course, split_whitespace(surname)[2]) }

\* The messages whose teacher extract_teachers tries to infer: those with a
\* course and an unresolved teacher reference of two words or more
InferredFrom(lesson) ==
    { place \in MessagePlaces(lesson.parsed_info) :
        /\ "_teachers" \in DOMAIN ParsedAt(lesson.parsed_info, place)
        /\ ParsedAt(lesson.parsed_info, place).other_info_value = None
        /\ \A surname \in ParsedAt(lesson.parsed_info, place)._teachers :
              Len(split_whitespace(surname)) >= 2 }

\* The abbreviation the claim lets a message be recorded under: the only one
\* that remains, when it has a letter
AcceptedAs(lesson, classes, parsed, surname) ==
    { abbreviation \in RemainingAbbreviations(lesson, classes, parsed, surname) :
        /\ Cardinality(RemainingAbbreviations(lesson, classes, parsed, surname)) = 1
        /\ \E k \in DOMAIN abbreviation : abbreviation[k] \in UpperDE \cup LowerDE }

\* C18: extract_teachers raises nothing; a record with a plan_long is in its
\* result only for a message for which exactly one abbreviation remains
\* after the narrowing steps, one with a letter, and it has that abbreviation
\* as plan_short, the teacher reference as plan_long and the date of the
\* lesson as first_seen and last_seen; and every such message of a lesson
\* that is not scheduled has its record, whatever happened to the messages
\* before it.
C18_InfersOnlyFromOneAbbreviation ==
    pc = "extract_done" =>
        /\ ~IsRaised(extract_out)
        /\ \A abbreviation \in DOMAIN extract_out.returned :
              extract_out.returned[abbreviation].plan_long # None =>
                  \E place \in InferredFrom(extract_lesson) :
                      \E surname \in ParsedAt(extract_lesson.parsed_info, place)._teachers :
                          /\ AcceptedAs(extract_lesson, extract_classes,
                                 ParsedAt(extract_lesson.parsed_info, place), surname)
                                = {abbreviation}
                          /\ extract_out.returned[abbreviation] =
                                [plan_short |-> abbreviation, plan_long |-> surname,
                                 first_seen |-> extract_lesson._lesson_date,
                                 last_seen |-> extract_lesson._lesson_date]
        /\ ~extract_lesson._is_scheduled =>
              \A place \in InferredFrom(extract_lesson) :
                  \A surname \in ParsedAt(extract_lesson.parsed_info, place)._teachers :
                      \A abbreviation \in AcceptedAs(extract_lesson, extract_classes,
                              ParsedAt(extract_lesson.parsed_info, place), surname) :
                          /\ abbreviation \in DOMAIN extract_out.returned
                          /\ extract_out.returned[abbreviation].plan_long # None

\* A notice of two messages with unresolved teachers was looked at: for the
\* first no class remained, so it has no record; for the second the classes
\* had two teachers, one of them remained, and the record of the message is
\* in the result.
C18_Witness ==
    /\ pc = "extract_done"
    /\ ~IsRaised(extract_out)
    /\ \E first \in InferredFrom(extract_lesson), second \in InferredFrom(extract_lesson) :
          /\ first[1] < second[1]
          /\ \A surname \in ParsedAt(extract_lesson.parsed_info, first)._teachers :
                RemainingAbbreviations(extract_lesson, extract_classes,
                    ParsedAt(extract_lesson.parsed_info, first), surname) = {}
          /\ \E surname \in ParsedAt(extract_lesson.parsed_info, second)._teachers :
                /\ Cardinality({extract_classes[n].teacher : n \in DOMAIN extract_classes}) = 2
                /\ \A n \in DOMAIN extract_classes :
                      extract_classes[n].subject = ParsedAt(extract_lesson.parsed_info, second).course
                /\ \E abbreviation \in DOMAIN extract_out.returned :
                      /\ extract_out.returned[abbreviation].plan_long = surname
                      /\ AcceptedAs(extract_lesson, extract_classes,
                             ParsedAt(extract_lesson.parsed_info, second), surname)
                            = {abbreviation}

\* The narrowing steps as the claim C23 words them, on the numbers of the
\* classes.  The candidates of a course for the forms of a lesson:
CandidatesOf(lesson, classes, course) ==
    LET fits(n) == lesson.forms \subseteq classes[n].forms
        by_name == {n \in DOMAIN classes :
                       fits(n) /\ course = (IF classes[n].group # None THEN classes[n].group
                                            ELSE classes[n].subject)}
    IN  IF by_name # {} THEN by_name
        ELSE {n \in DOMAIN classes : fits(n) /\ course = classes[n].subject}

\* More than one distinct abbreviation remains
SeveralRemain(classes, S) == Cardinality({classes[n].teacher : n \in S}) > 1

\* First step: the class whose id is the class number of the lesson, when
\* the lesson has one; discarded when it leaves no candidate
ByClassNumber(lesson, classes, S) ==
    IF SeveralRemain(classes, S) /\ lesson.class_opt.number # None
          /\ S \cap {lesson.class_opt.number} # {}
    THEN S \cap {lesson.class_opt.number}
    ELSE S

\* Second step: the candidates whose abbreviation's first letter begins name
ByFirstLetter(classes, name, S) ==
    IF SeveralRemain(classes, S)
    THEN {n \in S : classes[n].teacher # <<>> /\ SubSeq(name, 1, 1) = SubSeq(classes[n].teacher, 1, 1)}
    ELSE S

\* The abbreviations left for the teacher reference of a message
LeftFor(lesson, classes, parsed, surname) ==
    { classes[n].teacher :
        n \in ByFirstLetter(classes, split_whitespace(surname)[2],
                  ByClassNumber(lesson, classes, CandidatesOf(lesson, classes, parsed.course))) }

\* The messages of a lesson for which the order of the two steps matters:
\* the class of the lesson's number is one of several candidates, and the
\* other order leaves other abbreviations
OrderMatters(lesson, classes, parsed, surname) ==
    LET S == CandidatesOf(lesson, classes, parsed.course)
    IN  /\ SeveralRemain(classes, S)
        /\ lesson.class_opt.number \in S
        /\ LeftFor(lesson, classes, parsed, surname)
              # { classes[n].teacher :
                    n \in ByClassNumber(lesson, classes,
                              ByFirstLetter(classes, split_whitespace(surname)[2], S)) }

\* C23: in extract_teachers the candidates of a message are narrowed in a
\* fixed order and only while more than one distinct abbreviation remains:
\* first to the class whose id is the class number of the lesson (when the
\* lesson has one and the class is a candidate), then to the classes whose
\* abbreviation's first letter begins the second token of the teacher
\* reference.  A message of a lesson that is not scheduled has its record
\* exactly when one abbreviation with a letter is left after the two steps in
\* this order, and under that abbreviation.
C23_NarrowsByClassNumberThenLetter ==
    (pc = "extract_done" /\ ~IsRaised(extract_out) /\ ~extract_lesson._is_scheduled) =>
        \A place \in InferredFrom(extract_lesson) :
            \A surname \in ParsedAt(extract_lesson.parsed_info, place)._teachers :
                LET left == LeftFor(extract_lesson, extract_classes,
                                ParsedAt(extract_lesson.parsed_info, place), surname)
                    recorded == { abbreviation \in DOMAIN extract_out.returned :
                                    extract_out.returned[abbreviation].plan_long = surname }
                IN  IF Cardinality(left) = 1
                       /\ \A abbreviation \in left :
                             \E k \in DOMAIN abbreviation : isalpha(abbreviation[k])
                    THEN recorded = left
                    ELSE recorded = {}

\* The teacher reference "Hr. Ohm" of a lesson with the class number 1 was
\* looked at with two classes of the course: class 1 of a teacher whose
\* abbreviation does not begin the name, and a class of OHM.  The class of
\* the lesson won: the record is that of class 1.
C23_Witness ==
    /\ pc = "extract_done"
    /\ ~IsRaised(extract_out)
    /\ ~extract_lesson._is_scheduled
    /\ \E place \in InferredFrom(extract_lesson) :
          \E surname \in ParsedAt(extract_lesson.parsed_info, place)._teachers :
              /\ OrderMatters(extract_lesson, extract_classes,
                     ParsedAt(extract_lesson.parsed_info, place), surname)
              /\ \E abbreviation \in DOMAIN extract_out.returned :
                    /\ extract_out.returned[abbreviation].plan_long = surname
                    /\ abbreviation = extract_classes[extract_lesson.class_opt.number].teacher
                    /\ SubSeq(abbreviation, 1, 1) # SubSeq(split_whitespace(surname)[2], 1, 1)


----------------------------------------------------------------------------
(* Specification SpecLine: process_additional_info_line on a line of the    *)
(* additional information of a plan                                         *)

\* The lines: teachers, forms and rooms next to each other, at the start
\* and at the end of the line, a teacher with a salutation, a range of
\* forms, a hyphen between spaces, and words that are a teacher or a form
\* as well as a room
LineTexts ==
    { <<"A", "b", "c", " ", "1", " ", "6", "/", "1", " ">>, <<"1", " ", "A", "b", "c">>, <<"H", "r", ".", " ", "O", "h", "m", " ", "1", " ">>, <<"6", "/", "1", "-", "2", " ", "A", "b", "c", ":">>, <<"x", " ", "-", " ", "1", " ">>,
      <<"A", "b", "c">>, <<" ", "1">>, <<"A", "b", "c", " ", "6", "/", "1", " ", "x">> }

\* The teacher directories: an empty one, one that knows two teachers, and
\* one in which a room number is the name of a teacher
LineDirectories ==
    { [t \in {} |-> <<>>],
      (<<"A", "b", "c">> :> <<"A", "B", "C">>) @@ (<<"H", "e", "r", "r", ".", " ", "O", "h", "m">> :> <<"O", "H", "M">>),
      (<<"1">> :> <<"E", "I", "N">>) }

\* The forms that exist: none, and the two forms of a grade
LineForms == { <<>>, << ParsedForm(<<"6">>, <<"1">>), ParsedForm(<<"6">>, <<"2">>) >> }

\* The rooms, in the orders in which their set is iterated: no room, one
\* room, two rooms of which one has the name of a teacher, a room that has
\* the name of a form, and a room without a name
LineRooms ==
    UNION { Orders(rooms) :
                rooms \in { {}, {<<"1">>}, {<<"A", "b", "c">>, <<"1">>}, {<<"6", "/", "1">>}, {<<>>} } }

\* What nlp says of a line: every token is a proper noun, or the line is one
\* token that is none
NotProperNouns(text) == { {}, {fix_typography(text)} }

InitLine ==
    /\ pc = "line_call"
    /\ line_text \in LineTexts
    /\ line_input \in
          { [parsed_existing_forms |-> parsed_existing_forms, teachers |-> teachers,
             date |-> date, rooms |-> rooms, not_proper_nouns |-> not_proper_nouns] :
                parsed_existing_forms \in LineForms, teachers \in LineDirectories,
                date \in FuzzyDates, rooms \in LineRooms,
                not_proper_nouns \in UNION {NotProperNouns(text) : text \in LineTexts} }
    /\ line_input.not_proper_nouns \in NotProperNouns(line_text)
    /\ line_history = Unused
    /\ line_segments = Unused
    /\ cur_lesson = Unused /\ cur_plan_type = Unused
    /\ ParserIdle /\ GroupIdle /\ RenderIdle /\ FuzzyIdle /\ ExtractIdle /\ RestIdle

\* line_segments = process_additional_info_line(line_text, parsed_existing_forms,
\* teachers, date, rooms), and line_history the values of `segments` on the way
CallProcessLine ==
    /\ pc = "line_call"
    /\ \E result \in
            { process_additional_info_line(line_text, line_input.parsed_existing_forms,
                  line_input.teachers, line_input.date, line_input.rooms,
                  line_input.not_proper_nouns) } :
          /\ line_history' = IF IsRaised(result) THEN result ELSE result.history
          /\ line_segments' = IF IsRaised(result) THEN result ELSE result.returned
          /\ pc' = IF IsRaised(result) THEN "line_raised" ELSE "line_done"
    /\ UNCHANGED <<line_text, line_input, lessonVars, parserVars, groupVars, renderVars,
                   fuzzyVars, extractVars, restVars>>

NextLine == CallProcessLine

SpecLine == InitLine /\ [][NextLine]_vars


----------------------------------------------------------------------------
(* Claims about process_additional_info_line (checked under SpecLine) *)

\* The passes in the order of the claim, by the type of their links
PassTypes == << "teachers", "forms", "rooms" >>

\* The segments of a list that carry a link of one of the types
LinkedBy(segments, types) ==
    SelectSeq(segments, LAMBDA segment : segment.link # None /\ segment.link[1].type \in types)

\* C20: the passes run in the order teacher, form, room, and a pass leaves
\* the linked segments alone: behind pass k the links are those of the
\* passes 1..k, and the segments that were linked behind pass k are, with
\* their texts and their links and in their order, the segments that carry
\* a link of the passes 1..k behind every later pass and in the list that
\* is returned.
C20_LaterPassesKeepLinkedSegments ==
    pc = "line_done" =>
        /\ Len(line_history) = Len(PassTypes) + 1
        /\ line_segments = line_history[Len(line_history)]
        /\ line_history[1] = << [text |-> fix_typography(line_text), link |-> None] >>
        /\ \A k \in 1..Len(PassTypes) :
              /\ LinkedBy(line_history[k + 1], {PassTypes[j] : j \in 1..k})
                    = LinkedBy(line_history[k + 1], Range(PassTypes))
              /\ \A later \in (k + 1)..Len(PassTypes) :
                    LinkedBy(line_history[later + 1], {PassTypes[j] : j \in 1..k})
                       = LinkedBy(line_history[k + 1], Range(PassTypes))

\* A line was processed in which the teacher pass linked a word that is the
\* name of a room as well, the form pass linked a form and the room pass a
\* room: the word is under the link of its teacher in the list that is
\* returned.
C20_Witness ==
    /\ pc = "line_done"
    /\ \E k \in DOMAIN line_segments :
          /\ line_segments[k].link # None
          /\ line_segments[k].link[1].type = "teachers"
          /\ line_segments[k].text \in Range(line_input.rooms)
          /\ line_segments[k] \in Range(line_history[2])
    /\ \E k \in DOMAIN line_segments :
          line_segments[k].link # None /\ line_segments[k].link[1].type = "forms"
    /\ \E k \in DOMAIN line_segments :
          line_segments[k].link # None /\ line_segments[k].link[1].type = "rooms"


----------------------------------------------------------------------------
(* Specification SpecGrouped: group_text_segments on lists of segments      *)

\* The segments of out that are objects of the argument: out.append(segment)
\* puts the object itself into out, and out[-1].text += segment.text
\* changes it.  heads_from gives the places of these objects in `segments`.
RECURSIVE heads_from(_, _, _)
heads_from(segments, k, heads) ==
    IF k > Len(segments) THEN heads
    ELSE heads_from(segments, k + 1,
             IF segments[k].text = <<>> THEN heads
             ELSE IF heads # <<>> /\ segments[heads[Len(heads)]].link = segments[k].link
             THEN heads
             ELSE Append(heads, k))

\* The texts of a list of segments one behind the other
texts_of(segments) == concat([k \in DOMAIN segments |-> segments[k].text])

\* The objects of the argument behind the call of group_text_segments: an
\* object that is in out has got the texts of the segments merged into it
objects_after(segments) ==
    LET heads == heads_from(segments, 1, <<>>)
        last(j) == IF j < Len(heads) THEN heads[j + 1] - 1 ELSE Len(segments)
    IN  [k \in DOMAIN segments |->
            IF \E j \in DOMAIN heads : heads[j] = k
            THEN [segments[k] EXCEPT !.text =
                     texts_of(SubSeq(segments, k,
                                     last(CHOOSE j \in DOMAIN heads : heads[j] = k)))]
            ELSE segments[k]]

MaxSegments == 4

\* The texts and the links of the segments: an empty text, two links of
\* the same type that differ in their value, and no link
SegmentTexts == { <<>>, <<"a">>, <<"b", "c">> }
SegmentLinks ==
    { None,
      Some(LessonInfoTextSegmentLink("rooms", << <<"1">> >>, None, None)),
      Some(LessonInfoTextSegmentLink("rooms", << <<"2">> >>, None, None)) }
Segments == { LessonInfoTextSegment(text, link) : text \in SegmentTexts, link \in SegmentLinks }
SegmentLists == UNION { [1..n -> Segments] : n \in 0..MaxSegments }

InitGrouped ==
    /\ pc = "grouped_call"
    /\ grouped_input \in SegmentLists
    /\ grouped_objects = grouped_input
    /\ grouped_output = Unused
    /\ grouped_again = Unused
    /\ cur_lesson = Unused /\ cur_plan_type = Unused
    /\ TextIdle /\ NormaliseIdle /\ SortIdle /\ CrawlerIdle /\ RevisionIdle

\* grouped_output = group_text_segments(grouped_input)
CallGroupTextSegments ==
    /\ pc = "grouped_call"
    /\ grouped_output' = group_text_segments(grouped_input)
    /\ grouped_objects' = objects_after(grouped_input)
    /\ pc' = "grouped_once"
    /\ UNCHANGED <<grouped_input, grouped_again, lessonVars, textVars, normaliseVars,
                   sortVars, crawlerVars, revisionVars>>

\* grouped_again = group_text_segments(grouped_output)
CallGroupTextSegmentsAgain ==
    /\ pc = "grouped_once"
    /\ grouped_again' = group_text_segments(grouped_output)
    /\ pc' = "grouped_twice"
    /\ UNCHANGED <<grouped_input, grouped_objects, grouped_output, lessonVars, textVars,
                   normaliseVars, sortVars, crawlerVars, revisionVars>>

NextGrouped == CallGroupTextSegments \/ CallGroupTextSegmentsAgain

SpecGrouped == InitGrouped /\ [][NextGrouped]_vars

\* The links of a list of segments in their order; a link that follows an
\* equal one, and the link of a segment without text, are left out
RECURSIVE links_from(_, _, _)
links_from(segments, k, links) ==
    IF k > Len(segments) THEN links
    ELSE links_from(segments, k + 1,
             IF segments[k].text = <<>> THEN links
             ELSE IF links # <<>> /\ links[Len(links)] = segments[k].link THEN links
             ELSE Append(links, segments[k].link))

\* C21: the list group_text_segments returns has no segment with an empty
\* text and no two adjacent segments with equal links (two unlinked ones
\* count as equal); its texts one behind the other are those of the argument,
\* its links are the links of the argument in their order, and
\* group_text_segments of the returned list is the returned list.
C21_GroupedIsCompactAndStable ==
    pc \in {"grouped_once", "grouped_twice"} =>
        /\ \A k \in DOMAIN grouped_output : grouped_output[k].text # <<>>
        /\ \A k \in DOMAIN grouped_output :
              k > 1 => grouped_output[k - 1].link # grouped_output[k].link
        /\ texts_of(grouped_output) = texts_of(grouped_input)
        /\ [k \in DOMAIN grouped_output |-> grouped_output[k].link]
              = links_from(grouped_input, 1, <<>>)
        /\ pc = "grouped_twice" => grouped_again = grouped_output

\* A list with a segment without text between two segments of one link,
\* followed by two unlinked segments, was grouped to two segments and
\* grouped once more.
C21_Witness ==
    /\ pc = "grouped_twice"
    /\ Len(grouped_input) = 4
    /\ grouped_input[1].link # None /\ grouped_input[1].text # <<>>
    /\ grouped_input[2].link = grouped_input[1].link /\ grouped_input[2].text # <<>>
    /\ grouped_input[3].link = None /\ grouped_input[3].text = <<>>
    /\ grouped_input[4].link = None /\ grouped_input[4].text # <<>>
    /\ Len(grouped_output) = 2
    /\ grouped_again = grouped_output


----------------------------------------------------------------------------
(* Specification SpecNormalise: the validator of add_fuzzy_teacher_links    *)
(* on a match, lines 925-942                                                *)

\* The salutations and the names a teacher is written with
Salutations == { <<>>, <<"H", "r", " ">>, <<"H", "r", ".", " ">>, <<"H", "e", "r", "r", "n", " ">>, <<"H", "e", "r", "r", " ">>, <<"F", "r", " ">>, <<"F", "r", ".", " ">>, <<"F", "r", "a", "u", " ">> }
TeacherNames == { <<"O", "h", "m">>, <<"A", "l", "t">>, <<"F", "r", "i", "t", "z">> }
NormaliseTexts == { salutation \o name : salutation \in Salutations, name \in TeacherNames }

\* match.group() of the matches of the patterns at the start of the texts
Candidates ==
    { matched(match.found, match.text) :
        match \in { m \in { [text |-> text, found |-> pattern_match(teacher_patterns[k], text, 0)] :
                                text \in NormaliseTexts, k \in DOMAIN teacher_patterns } :
                        m.found.ok } }

\* The directories: one that knows no teacher, one that knows the teachers
\* by salutation and name, and one that knows them by their name
NormaliseDirectories ==
    { [t \in {} |-> <<>>],
      (<<"H", "e", "r", "r", " ", "O", "h", "m">> :> <<"O", "H", "M">>) @@ (<<"F", "r", "a", "u", " ", "A", "l", "t">> :> <<"A", "L", "T">>) @@ (<<"H", "e", "r", "r", " ", "F", "r", "i", "t", "z">> :> <<"F", "R", "I">>),
      (<<"O", "h", "m">> :> <<"O", "H", "M">>) @@ (<<"A", "l", "t">> :> <<"A", "L", "T">>) @@ (<<"F", "r", "i", "t", "z">> :> <<"F", "R", "I">>) }

InitNormalise ==
    /\ pc = "normalise_call"
    /\ known_teachers \in NormaliseDirectories
    /\ candidate \in Candidates
    /\ normalised = Unused
    /\ looked_up = Unused
    /\ cur_lesson = Unused /\ cur_plan_type = Unused
    /\ TextIdle /\ GroupedIdle /\ SortIdle /\ CrawlerIdle /\ RevisionIdle

\* Lines 935-937: the loop over the replacements
Normalise ==
    /\ pc = "normalise_call"
    /\ normalised' = replace_from(candidate, 1)
    /\ pc' = "normalise_done"
    /\ UNCHANGED <<known_teachers, candidate, looked_up, lessonVars, textVars, groupedVars,
                   sortVars, crawlerVars, revisionVars>>

\* Lines 939-942: the look-up of the normalised candidate
QueryPlanTeacher ==
    /\ pc = "normalise_done"
    /\ looked_up' = query_plan_teacher(known_teachers, normalised)
    /\ pc' = "normalise_looked_up"
    /\ UNCHANGED <<known_teachers, candidate, normalised, lessonVars, textVars, groupedVars,
                   sortVars, crawlerVars, revisionVars>>

NextNormalise == Normalise \/ QueryPlanTeacher

SpecNormalise == InitNormalise /\ [][NextNormalise]_vars

\* A candidate with its salutation expanded: the word Hr, Hr. or Herrn
\* reads Herr, the word Fr or Fr. reads Frau, every other word is kept
expanded_word(word) ==
    IF word \in { <<"H", "r">>, <<"H", "r", ".">>, <<"H", "e", "r", "r", "n">> } THEN <<"H", "e", "r", "r">>
    ELSE IF word \in { <<"F", "r">>, <<"F", "r", ".">> } THEN <<"F", "r", "a", "u">>
    ELSE word
expanded(text) ==
    LET words == str_split(text, " ")
    IN  Join([k \in DOMAIN words |-> expanded_word(words[k])], <<" ">>)

\* C22: the teacher pass looks a candidate up with the salutations Hr, Hr.
\* and Herrn expanded to Herr and Fr, Fr. expanded to Frau and with nothing
\* else changed: a candidate that reads "Herr <name>" or "Frau <name>" is
\* looked up as it is, and normalising the normalised candidate once more
\* changes nothing.
C22_ExpandsSalutationsOnly ==
    pc \in {"normalise_done", "normalise_looked_up"} =>
        /\ normalised = expanded(candidate)
        /\ (Len(candidate) > 5 /\ SubSeq(candidate, 1, 5) \in { <<"H", "e", "r", "r", " ">>, <<"F", "r", "a", "u", " ">> })
              => normalised = candidate
        /\ replace_from(normalised, 1) = normalised

\* A candidate that reads "Frau <name>" was normalised, and the directory
\* that knows the teacher by this very text was asked for it.
C22_Witness ==
    /\ pc = "normalise_looked_up"
    /\ candidate = <<"F", "r", "a", "u", " ", "A", "l", "t">>
    /\ candidate \in DOMAIN known_teachers


----------------------------------------------------------------------------
(* Specification SpecSort: the notice of a lesson is parsed, and the        *)
(* methods that sort and filter are called on the object and on the         *)
(* objects they return                                                      *)

\* Most calls on the objects of one notice
MaxSortCalls == 4

\* The notices: paragraphs and messages that stand in their canonical order
\* or not, blank pieces between them, neighbours no rule matches, and two
\* paragraphs of the same text
SortTexts ==
    { <<"x", ";", " ", "M", "A", " ", "A", "b", "c", " ", "f", "ä", "l", "l", "t", " ", "a", "u", "s", ",", " ", "a">>,
      <<"b", ",", " ", "M", "A", " ", "A", "b", "c", " ", "f", "ä", "l", "l", "t", " ", "a", "u", "s", ",", " ", "a", ";", " ", "D", "E", " ", "X", "y", "z", " ", "f", "ä", "l", "l", "t", " ", "a", "u", "s">>,
      <<"b", ",", " ", "a">>,
      <<",", " ", "x", ";", " ", ";", " ", "y", ",", " ", "M", "A", " ", "A", "b", "c", " ", "f", "ä", "l", "l", "t", " ", "a", "u", "s">>,
      <<"M", "A", " ", "A", "b", "c", " ", "f", "ä", "l", "l", "t", " ", "a", "u", "s", ";", " ", "M", "A", " ", "A", "b", "c", " ", "f", "ä", "l", "l", "t", " ", "a", "u", "s", ",", " ", "x">>,
      <<"s", "t", "a", "t", "t", " ", "D", "o", " ", "(", "2", "9", ".", "0", "2", ".", ")", " ", "S", "t", ".", "1">> }

SortKeys == { "index", "original_messages", "reversed" }
FilterFunctions == { "failed", "parsed", "first" }

InitSort ==
    /\ pc = "sort_call"
    /\ sort_text \in SortTexts
    /\ cur_lesson \in Lessons
    /\ cur_plan_type \in {"forms", "teachers"}
    /\ sort_parsed = Unused
    /\ sort_heap = Unused
    /\ sort_objects = Unused
    /\ sort_call = Unused
    /\ sort_keys = Unused
    /\ TextIdle /\ GroupedIdle /\ NormaliseIdle /\ CrawlerIdle /\ RevisionIdle

\* The call that is recorded in sort_call
Called(method, receiver, argument, returned) ==
    [method |-> method, receiver |-> receiver, argument |-> argument,
     returned |-> returned, number |-> sort_call.number + 1]

\* No call has been made on the objects yet
NoCall == [method |-> "none", receiver |-> 0, argument |-> None, returned |-> None,
           number |-> 0]

\* An object of the caller: whole tells that it has every message of the
\* notice, canonical that sorted_canonical returned it and nothing has
\* sorted it since
Object(self, whole, canonical) == [self |-> self, whole |-> whole, canonical |-> canonical]

MayCall == pc = "sort_parsed" /\ sort_call.number < MaxSortCalls

\* sort_parsed = ParsedLessonInfo.from_str(sort_text, cur_lesson, cur_plan_type)
ParseSort ==
    /\ pc = "sort_call"
    /\ \E parsed \in { ParsedLessonInfo_from_str(sort_text, cur_lesson, cur_plan_type) } :
          /\ sort_parsed' = parsed
          /\ pc' = IF IsRaised(parsed) THEN "sort_raised" ELSE "sort_parsed"
          /\ sort_heap' = IF IsRaised(parsed) THEN Unused ELSE allocate_parsed(parsed).heap
          /\ sort_objects' = IF IsRaised(parsed) THEN Unused
                             ELSE << Object(allocate_parsed(parsed).returned, TRUE, FALSE) >>
          /\ sort_keys' = {}
          /\ sort_call' = NoCall
    /\ UNCHANGED <<sort_text, lessonVars, textVars, groupedVars, normaliseVars,
                   crawlerVars, revisionVars>>

\* sort_objects[k].sort(key)
CallSort ==
    /\ MayCall
    /\ \E k \in DOMAIN sort_objects, key \in SortKeys :
          /\ sort_heap' = ParsedLessonInfo_sort(sort_heap, sort_objects[k].self, key)
          /\ sort_objects' = [sort_objects EXCEPT ![k].canonical = FALSE]
          /\ sort_call' = Called("sort", k, key, None)
    /\ UNCHANGED <<pc, sort_text, sort_parsed, sort_keys, lessonVars, textVars, groupedVars,
                   normaliseVars, crawlerVars, revisionVars>>

\* sort_objects[k].paragraphs[p].sort(key)
CallParagraphSort ==
    /\ MayCall
    /\ \E k \in DOMAIN sort_objects, key \in SortKeys :
          \E p \in DOMAIN sort_heap[sort_objects[k].self.paragraphs] :
              /\ sort_heap' = LessonInfoParagraph_sort(sort_heap,
                                  sort_heap[sort_objects[k].self.paragraphs][p], key)
              /\ sort_objects' = [sort_objects EXCEPT ![k].canonical = FALSE]
              /\ sort_call' = Called("paragraph.sort", k, key, None)
    /\ UNCHANGED <<pc, sort_text, sort_parsed, sort_keys, lessonVars, textVars, groupedVars,
                   normaliseVars, crawlerVars, revisionVars>>

\* sort_objects[k].sort_original()
CallSortOriginal ==
    /\ MayCall
    /\ \E k \in DOMAIN sort_objects :
          /\ sort_heap' = sort_original(sort_heap, sort_objects[k].self)
          /\ sort_objects' = [sort_objects EXCEPT ![k].canonical = FALSE]
          /\ sort_call' = Called("sort_original", k, None, None)
    /\ UNCHANGED <<pc, sort_text, sort_parsed, sort_keys, lessonVars, textVars, groupedVars,
                   normaliseVars, crawlerVars, revisionVars>>

\* The objects of the caller with one more: an object a method returned that
\* the caller has already is not counted twice
WithObject(objects, new) ==
    IF \E j \in DOMAIN objects : objects[j].self = new.self
    THEN [j \in DOMAIN objects |-> IF objects[j].self = new.self THEN new ELSE objects[j]]
    ELSE Append(objects, new)

\* sort_objects[k].sorted_canonical()
CallSortedCanonical ==
    /\ MayCall
    /\ \E k \in DOMAIN sort_objects :
          \E result \in { sorted_canonical_on(sort_heap, sort_objects[k].self) } :
              /\ sort_heap' = result.heap
              /\ sort_objects' = WithObject(sort_objects,
                                     Object(result.returned, sort_objects[k].whole, TRUE))
              /\ sort_call' = Called("sorted_canonical", k, None, result.returned)
    /\ UNCHANGED <<pc, sort_text, sort_parsed, sort_keys, lessonVars, textVars, groupedVars,
                   normaliseVars, crawlerVars, revisionVars>>

\* sort_objects[k].lesson_group_sort_key()
CallLessonGroupSortKey ==
    /\ MayCall
    /\ \E k \in DOMAIN sort_objects :
          \E result \in { lesson_group_sort_key_on(sort_heap, sort_objects[k].self) } :
              /\ sort_heap' = result.heap
              /\ sort_keys' = IF sort_objects[k].whole
                              THEN sort_keys \cup { [order |-> object_at(sort_heap, sort_objects[k].self),
                                                      key |-> result.returned] }
                              ELSE sort_keys
              /\ sort_call' = Called("lesson_group_sort_key", k, None, result.returned)
    /\ UNCHANGED <<pc, sort_text, sort_parsed, sort_objects, lessonVars, textVars,
                   groupedVars, normaliseVars, crawlerVars, revisionVars>>

\* sort_objects[k].filter_messages(func)
CallFilterMessages ==
    /\ MayCall
    /\ \E k \in DOMAIN sort_objects, name \in FilterFunctions :
          \E result \in { filter_messages(sort_heap, sort_objects[k].self, name) } :
              /\ sort_heap' = result.heap
              /\ sort_objects' = WithObject(sort_objects,
                                     Object(result.returned, FALSE, FALSE))
              /\ sort_call' = Called("filter_messages", k, name, result.returned)
    /\ UNCHANGED <<pc, sort_text, sort_parsed, sort_keys, lessonVars, textVars, groupedVars,
                   normaliseVars, crawlerVars, revisionVars>>

NextSort ==
    \/ ParseSort \/ CallSort \/ CallParagraphSort \/ CallSortOriginal
    \/ CallSortedCanonical \/ CallLessonGroupSortKey \/ CallFilterMessages

SpecSort == InitSort /\ [][NextSort]_vars

\* The objects agree with the methods on values: sorted_canonical of an
\* object has the lists sorted_canonical of its value has
SortedCanonicalAgrees ==
    (pc = "sort_parsed" /\ sort_call.method = "sorted_canonical") =>
        object_at(sort_heap, sort_call.returned)
            = sorted_canonical(object_at(sort_heap, sort_objects[sort_call.receiver].self))


----------------------------------------------------------------------------
(* Claims about the sorting of a parsed notice (checked under SpecSort) *)

\* The indexes of a list of paragraphs or messages are increasing
Increasing(list) == \A i \in DOMAIN list, j \in DOMAIN list : i < j => list[i].index < list[j].index

\* C24: sort_original on the object sorted_canonical returned, and on an
\* object after any calls of sort and sorted_canonical, restores the order
\* of the paragraphs and of the messages of each paragraph that from_str
\* produced; the indexes of the paragraphs, and of the messages of a
\* paragraph, are distinct and increasing in the order of from_str.
C24_SortOriginalRestoresSourceOrder ==
    pc = "sort_parsed" =>
        /\ Increasing(sort_parsed.paragraphs)
        /\ \A p \in DOMAIN sort_parsed.paragraphs : Increasing(sort_parsed.paragraphs[p].messages)
        /\ (sort_call.method = "sort_original" /\ sort_objects[sort_call.receiver].whole) =>
              object_at(sort_heap, sort_objects[sort_call.receiver].self) = sort_parsed

\* sort_original was called on the object sorted_canonical had returned for
\* a notice whose canonical order has the paragraphs and the messages of a
\* paragraph in another order than the notice, and the object has the order
\* of the notice again.
C24_Witness ==
    /\ pc = "sort_parsed"
    /\ sort_call.method = "sort_original"
    /\ sort_call.receiver = 2
    /\ sort_objects[2].whole
    /\ Len(sort_parsed.paragraphs) = 2
    /\ sorted_canonical(sort_parsed).paragraphs[1].index = 1
    /\ \E p \in DOMAIN sort_parsed.paragraphs :
          ~Increasing(sorted_canonical(sort_parsed).paragraphs[p].messages)
    /\ object_at(sort_heap, sort_objects[2].self) = sort_parsed

\* C25: lesson_group_sort_key returns the same key however the paragraphs of
\* the object and the messages of its paragraphs are ordered, and
\* sorted_canonical of an object that is canonically sorted returns the
\* paragraphs and the messages in the order they have.
C25_KeyIgnoresOrder ==
    pc = "sort_parsed" =>
        /\ \A a \in sort_keys, b \in sort_keys : a.key = b.key
        /\ (sort_call.method = "sorted_canonical" /\ sort_objects[sort_call.receiver].canonical) =>
              object_at(sort_heap, sort_call.returned)
                  = object_at(sort_heap, sort_objects[sort_call.receiver].self)

\* The key was taken of two objects that have the paragraphs of the notice
\* in different orders and, in one paragraph, the messages in different
\* orders, and sorted_canonical was called on the object sorted_canonical had
\* returned.
C25_Witness ==
    /\ pc = "sort_parsed"
    /\ \E a \in sort_keys, b \in sort_keys :
          /\ a.order.paragraphs[1].index # b.order.paragraphs[1].index
          /\ \E p \in DOMAIN a.order.paragraphs, q \in DOMAIN b.order.paragraphs :
                /\ a.order.paragraphs[p].index = b.order.paragraphs[q].index
                /\ a.order.paragraphs[p].messages # b.order.paragraphs[q].messages
    /\ sort_call.method = "sorted_canonical"
    /\ sort_objects[sort_call.receiver].canonical
    /\ sort_call.returned # sort_objects[sort_call.receiver].self

\* What filter_messages returned has, in their order, the paragraphs of the
\* receiver of which a message is kept, with their indexes and with the
\* messages that are kept in their order
FilteredFrom(returned, receiver, name) ==
    LET kept(p) == SelectSeq(receiver.paragraphs[p].messages,
                             LAMBDA message : func(name, message))
        places == {p \in DOMAIN receiver.paragraphs : kept(p) # <<>>}
    IN  /\ Len(returned.paragraphs) = Cardinality(places)
        /\ \A k \in DOMAIN returned.paragraphs :
              /\ returned.paragraphs[k].messages # <<>>
              /\ \E p \in places :
                    /\ Cardinality({q \in places : q < p}) = k - 1
                    /\ returned.paragraphs[k] =
                          [messages |-> kept(p), index |-> receiver.paragraphs[p].index]

\* C28: sorted_canonical, lesson_group_sort_key and filter_messages leave the
\* lists of the paragraphs and of the messages of every object as they are,
\* with their order and their indexes; the paragraphs filter_messages
\* returns are not empty and keep their indexes and their order.
C28_ReceiverIsLeftUnchanged ==
    /\ [][(pc = "sort_parsed" /\ sort_call'.number = sort_call.number + 1
             /\ sort_call'.method \in {"sorted_canonical", "lesson_group_sort_key",
                                       "filter_messages"}) =>
            /\ \A a \in DOMAIN sort_heap : sort_heap'[a] = sort_heap[a]
            /\ \A k \in DOMAIN sort_objects : sort_objects'[k].self = sort_objects[k].self]_vars
    /\ []((pc = "sort_parsed" /\ sort_call.method = "filter_messages") =>
            FilteredFrom(object_at(sort_heap, sort_call.returned),
                         object_at(sort_heap, sort_objects[sort_call.receiver].self),
                         sort_call.argument))

\* sorted_canonical was called on an object whose canonical order is not the
\* order it has, and filter_messages on the object that was returned, with a
\* function that keeps a message of one paragraph and none of another.
C28_Witness ==
    /\ pc = "sort_parsed"
    /\ sort_call.method = "filter_messages"
    /\ sort_call.receiver = 2
    /\ sort_objects[2].canonical
    /\ object_at(sort_heap, sort_objects[2].self) # sort_parsed
    /\ Len(sort_heap[sort_call.returned.paragraphs]) = 1
    /\ Len(sort_parsed.paragraphs) = 2


----------------------------------------------------------------------------
(* Specification SpecNotice: ParsedLessonInfo.from_str and resolve_teachers *)
(* on notices with lists of teachers, with brackets, and with fragments     *)
(* that are rewritten before they are matched                               *)

\* The notices: courses with a list of two teachers, cancelled, moved and
\* substituted; a list in brackets; fragments no rule matches, with blank
\* ones between them, with a comma in brackets, with a bracket that is not
\* closed, and with a space behind a slash
NoticeTexts ==
    { <<"M", "A", " ", "A", "B", "C", ",", " ", "H", "e", "r", "r", " ", "X", "y", "z", " ", "f", "ä", "l", "l", "t", " ", "a", "u", "s">>,
      <<"M", "A", " ", "A", "B", "C", ",", "X", "Y", "Z", " ", "f", "ä", "l", "l", "t", " ", "a", "u", "s">>,
      <<"f", "ü", "r", " ", "M", "A", " ", "A", "B", "C", ",", " ", "H", "e", "r", "r", " ", "X", "y", "z">>,
      <<"E", "N", " ", "A", "b", "c", ",", " ", "F", "r", "a", "u", " ", "X", "y", "z", " ", "v", "e", "r", "l", "e", "g", "t", " ", "n", "a", "c", "h", " ", "S", "t", ".", "3", ";", " ", "x">>,
      <<"x", " ", "(", "M", "A", " ", "A", "B", "C", ",", " ", "H", "e", "r", "r", " ", "X", "y", "z", " ", "f", "ä", "l", "l", "t", " ", "a", "u", "s", ")">>,
      <<"M", "A", " ", "A", "b", "c", " ", "f", "ä", "l", "l", "t", " ", "a", "u", "s", ",", " ", "D", "E", " ", "X", "y", "z", " ", "f", "ä", "l", "l", "t", " ", "a", "u", "s">>,
      <<"x", ",", " ", "y", ";", " ", "z">>,
      <<" ", ",", " ", "x", ",", " ", ",", " ", "y">>,
      <<"a", " ", "(", "b", ",", " ", "c", ")", ",", " ", "d">>,
      <<"(", "a", ",", " ", "b">>,
      <<"G", "/", " ", "R", ",", " ", "x">>,
      <<"x">> }

InitNotice ==
    /\ pc = "info_call"
    /\ info_text \in NoticeTexts
    /\ cur_lesson \in Lessons
    /\ cur_plan_type \in PlanTypes
    /\ lesson_info = Unused
    /\ resolve_calls = 0
    /\ string = Unused /\ sep = Unused /\ out = Unused
    /\ message_text = Unused /\ parsed_info = Unused
    /\ LaterIdle

SpecNotice == InitNotice /\ [][NextInfo]_vars

\* C26: every message with a course (InsteadOfCourse, MovedTo, Cancelled)
\* that ParsedLessonInfo.from_str produces has exactly one teacher reference
\* in _teachers: the commas of a paragraph are split points before a rule is
\* tried, so no rule matches a list of two teachers.
C26_OneTeacherPerCourseMessage ==
    pc = "info_parsed" =>
        \A place \in MessagePlaces(lesson_info) :
            ParsedAt(lesson_info, place).type \in {"InsteadOfCourse", "MovedTo", "Cancelled"} =>
                Cardinality(ParsedAt(lesson_info, place)._teachers) = 1

\* A notice that cancels a course of a list of two teachers was parsed: the
\* message with the course is that of the text behind the comma.
C26_Witness ==
    /\ pc = "info_parsed"
    /\ info_text = <<"M", "A", " ", "A", "B", "C", ",", " ", "H", "e", "r", "r", " ", "X", "y", "z", " ", "f", "ä", "l", "l", "t", " ", "a", "u", "s">>
    /\ \E place \in MessagePlaces(lesson_info) :
          /\ ParsedAt(lesson_info, place).type = "Cancelled"
          /\ ParsedAt(lesson_info, place)._teachers = { <<"X", "y", "z">> }

\* The fragments of a paragraph as the claim C27 has them: the pieces
\* between the commas outside of brackets (a bracket that is not closed is a
\* character like any other), trimmed, without the blank ones
RECURSIVE PiecesAtCommas(_, _, _)
PiecesAtCommas(text, depth, piece) ==
    IF text = <<>> THEN << piece >>
    ELSE LET closes == \E k \in DOMAIN text : text[k] = ")"
         IN  IF Head(text) = "," /\ depth = 0
             THEN << piece >> \o PiecesAtCommas(Tail(text), 0, <<>>)
             ELSE PiecesAtCommas(Tail(text),
                      IF Head(text) = "(" /\ closes THEN depth + 1
                      ELSE IF Head(text) = ")" /\ depth > 0 THEN depth - 1
                      ELSE depth,
                      Append(piece, Head(text)))

NonBlankFragments(paragraph) ==
    LET pieces == PiecesAtCommas(paragraph, 0, <<>>)
        trimmed == [k \in DOMAIN pieces |-> strip(pieces[k])]
    IN  SelectSeq(trimmed, LAMBDA piece : piece # <<>>)

\* C27: in a plan of teachers or of rooms every message is a FailedToParse
\* with empty before and after, so a paragraph from_str produces has at most
\* one message, and its original_messages are the fragments of the
\* paragraph between the commas that are not blank, in their order.
C27_OneMessageOfAllFragments ==
    (pc = "info_parsed" /\ resolve_calls = 0 /\ cur_plan_type \in {"teachers", "rooms"}) =>
        \A p \in DOMAIN lesson_info.paragraphs :
            LET paragraph == lesson_info.paragraphs[p]
            IN  /\ Len(paragraph.messages) <= 1
                /\ \A m \in DOMAIN paragraph.messages :
                      /\ paragraph.messages[m].parsed.type = "FailedToParse"
                      /\ paragraph.messages[m].parsed.before = <<>>
                      /\ paragraph.messages[m].parsed.after = <<>>
                      /\ paragraph.messages[m].parsed.original_messages
                            = NonBlankFragments(ParagraphText(info_text, paragraph.index))

\* A paragraph of a plan of teachers with blank fragments between two
\* fragments was parsed to one message that lists the two fragments.
C27_Witness ==
    /\ pc = "info_parsed"
    /\ cur_plan_type = "teachers"
    /\ info_text = <<" ", ",", " ", "x", ",", " ", ",", " ", "y">>
    /\ Len(lesson_info.paragraphs) = 1
    /\ Len(lesson_info.paragraphs[1].messages) = 1
    /\ lesson_info.paragraphs[1].messages[1].parsed.original_messages = << <<"x">>, <<"y">> >>


----------------------------------------------------------------------------
(* Specification SpecCrawler: PlanCrawler.check_infinite, load_plans.py     *)
(* 25-40, with PlanDownloader.update_fetch, plan_downloader.py 58-73.  What *)
(* the downloads of a cycle give is an input.  A dict is the sequence of    *)
(* its items, a pair of key and value each, in the order of insertion.      *)

\* Most cycles of the loop
MaxCycles == 3

\* The files a cycle may download: (date, revision, file_metadata)
DownloadedTriples ==
    { << date, 10, plan_filename >> :
        date \in {1, 2}, plan_filename \in {"PlanKl.xml", "PlanLe.xml"} }

\* out[date, revision].append(file_metadata) on the defaultdict `out`
dict_append(out_items, key, value) ==
    IF \E k \in DOMAIN out_items : out_items[k][1] = key
    THEN [k \in DOMAIN out_items |->
             IF out_items[k][1] = key
             THEN << key, Append(out_items[k][2], value) >>
             ELSE out_items[k]]
    ELSE Append(out_items, << key, << value >> >>)

\* The loop of update_fetch (lines 69-73) over `new` in the order the set is
\* iterated in
RECURSIVE update_fetch_out(_, _)
update_fetch_out(new, out_items) ==
    IF new = <<>> THEN out_items
    ELSE update_fetch_out(Tail(new),
             dict_append(out_items, << Head(new)[1], Head(new)[2] >>, Head(new)[3]))

\* a, b, c = item: the values of the item, or ValueError when they are not
\* as many as the names
unpack(item, names) == IF Len(item) = names THEN Return(item) ELSE Raise("ValueError")

\* A call that check_infinite has made, and the exception that ended it
Call(name, arguments, cycle) == [name |-> name, arguments |-> arguments, cycle |-> cycle]

\* The cycle check_infinite is in: the number of calls of update_fetch
Cycle(calls) == Cardinality({k \in DOMAIN calls : calls[k].name = "update_fetch"})

InitCrawler ==
    /\ pc = "crawler_start"
    /\ downloaded_files = <<>>
    /\ remaining_items = <<>>
    /\ crawler_calls = <<>>
    /\ cur_lesson = Unused /\ cur_plan_type = Unused
    /\ TextIdle /\ GroupedIdle /\ NormaliseIdle /\ SortIdle /\ RevisionIdle

\* Line 26: self.plan_processor.update_all()
CallUpdateAll ==
    /\ pc = "crawler_start"
    /\ crawler_calls' = Append(crawler_calls, Call("update_all", <<>>, 0))
    /\ pc' = "crawler_fetch"
    /\ UNCHANGED <<downloaded_files, remaining_items, lessonVars, textVars, groupedVars,
                   normaliseVars, sortVars, revisionVars>>

\* Line 29: downloaded_files = await self.plan_downloader.update_fetch(); a
\* download that fails with another status than 401 and 404 ends
\* check_infinite with its PlanClientError (plan_downloader.py 81-87)
AwaitUpdateFetch ==
    /\ pc = "crawler_fetch"
    /\ Cycle(crawler_calls) < MaxCycles
    /\ \/ \E files \in SUBSET DownloadedTriples :
             \E new \in Orders(files) :
                 /\ downloaded_files' = update_fetch_out(new, <<>>)
                 /\ crawler_calls' = Append(crawler_calls,
                        Call("update_fetch", update_fetch_out(new, <<>>),
                             Cycle(crawler_calls) + 1))
                 /\ pc' = "crawler_invalidate"
       \/ /\ crawler_calls' = Append(crawler_calls,
                 Call("raise", "PlanClientError", Cycle(crawler_calls) + 1))
          /\ pc' = "crawler_raised"
          /\ UNCHANGED downloaded_files
    /\ UNCHANGED <<remaining_items, lessonVars, textVars, groupedVars, normaliseVars,
                   sortVars, revisionVars>>

\* Lines 31-32: if downloaded_files: meta_extractor.invalidate_cache(); then
\* the for statement of line 34 asks for the items
InvalidateCache ==
    /\ pc = "crawler_invalidate"
    /\ crawler_calls' =
          IF downloaded_files # <<>>
          THEN Append(crawler_calls, Call("invalidate_cache", <<>>, Cycle(crawler_calls)))
          ELSE crawler_calls
    /\ remaining_items' = downloaded_files
    /\ pc' = "crawler_for"
    /\ UNCHANGED <<downloaded_files, lessonVars, textVars, groupedVars, normaliseVars,
                   sortVars, revisionVars>>

\* Lines 34-35: for date, revision, downloaded_files_metadata in
\* downloaded_files.items(): self.plan_processor.update_plans(date, revision)
ForDownloadedFiles ==
    /\ pc = "crawler_for"
    /\ IF remaining_items = <<>>
       THEN /\ pc' = "crawler_meta"
            /\ UNCHANGED <<remaining_items, crawler_calls>>
       ELSE \E targets \in { unpack(Head(remaining_items), 3) } :
               IF IsRaised(targets)
               THEN /\ crawler_calls' = Append(crawler_calls,
                           Call("raise", targets.raised, Cycle(crawler_calls)))
                    /\ pc' = "crawler_raised"
                    /\ UNCHANGED remaining_items
               ELSE /\ crawler_calls' = Append(crawler_calls,
                           Call("update_plans",
                                << targets.returned[1], targets.returned[2] >>,
                                Cycle(crawler_calls)))
                    /\ remaining_items' = Tail(remaining_items)
                    /\ pc' = "crawler_for"
    /\ UNCHANGED <<downloaded_files, lessonVars, textVars, groupedVars, normaliseVars,
                   sortVars, revisionVars>>

\* Lines 37-38: if downloaded_files: self.plan_processor.update_meta()
UpdateMeta ==
    /\ pc = "crawler_meta"
    /\ crawler_calls' =
          IF downloaded_files # <<>>
          THEN Append(crawler_calls, Call("update_meta", <<>>, Cycle(crawler_calls)))
          ELSE crawler_calls
    /\ pc' = "crawler_sleep"
    /\ UNCHANGED <<downloaded_files, remaining_items, lessonVars, textVars, groupedVars,
                   normaliseVars, sortVars, revisionVars>>

\* Line 40: await asyncio.sleep(interval), and the loop starts again
Sleep ==
    /\ pc = "crawler_sleep"
    /\ pc' = "crawler_fetch"
    /\ UNCHANGED <<crawlerVars, lessonVars, textVars, groupedVars, normaliseVars,
                   sortVars, revisionVars>>

NextCrawler ==
    \/ CallUpdateAll \/ AwaitUpdateFetch \/ InvalidateCache
    \/ ForDownloadedFiles \/ UpdateMeta \/ Sleep

SpecCrawler == InitCrawler /\ [][NextCrawler]_vars

\* The names of the calls of a cycle in their order, and the arguments of
\* its calls of update_plans
CallsOfCycle(cycle) ==
    SelectSeq(crawler_calls, LAMBDA call : call.cycle = cycle /\ call.name # "raise")
NamesOf(calls) == [k \in DOMAIN calls |-> calls[k].name]

\* A cycle is over: check_infinite sleeps behind it, is in a later cycle, or
\* has ended in it behind update_fetch
CycleIsOver(cycle) ==
    /\ cycle >= 1
    /\ \E k \in DOMAIN crawler_calls :
          crawler_calls[k].cycle = cycle /\ crawler_calls[k].name = "update_fetch"
    /\ \/ cycle < Cycle(crawler_calls)
       \/ pc \in {"crawler_sleep", "crawler_raised"}

\* C29: update_all is called once, before the first cycle.  In every cycle
\* update_fetch comes first; when it returned a (date, revision),
\* invalidate_cache is called before any update_plans, update_plans once for
\* every (date, revision) that was returned, and update_meta once behind
\* them; when it returned nothing, none of the three is called.
C29_CallsOfACycleAreOrdered ==
    /\ crawler_calls # <<>> =>
          /\ crawler_calls[1].name = "update_all"
          /\ \A k \in DOMAIN crawler_calls : crawler_calls[k].name = "update_all" => k = 1
    /\ \A cycle \in 1..MaxCycles :
          CycleIsOver(cycle) =>
              LET calls == CallsOfCycle(cycle)
                  returned == calls[1].arguments
              IN  /\ calls[1].name = "update_fetch"
                  /\ IF returned = <<>> THEN Len(calls) = 1
                     ELSE /\ Len(calls) = Len(returned) + 3
                          /\ calls[2].name = "invalidate_cache"
                          /\ calls[Len(calls)].name = "update_meta"
                          /\ \A i \in DOMAIN returned :
                                Cardinality({k \in 3..(Len(calls) - 1) :
                                    /\ calls[k].name = "update_plans"
                                    /\ calls[k].arguments = returned[i][1]}) = 1

\* A cycle in which update_fetch returned nothing was followed by one in
\* which it returned the files of two days: invalidate_cache was called, and
\* check_infinite has ended in the for statement.
C29_Witness ==
    /\ pc = "crawler_raised"
    /\ Cycle(crawler_calls) = 2
    /\ Len(downloaded_files) = 2
    /\ crawler_calls[Len(crawler_calls)] = Call("raise", "ValueError", 2)
    /\ crawler_calls[Len(crawler_calls) - 1].name = "invalidate_cache"
    /\ NamesOf(CallsOfCycle(1)) = << "update_fetch" >>


----------------------------------------------------------------------------
(* Specification SpecRevision: PlanDownloader.get_revision_from_last_modified, *)
(* plan_downloader.py 186-199.  A datetime is a number of minutes, a        *)
(* timedelta a difference of two.  What Cache.get_timestamps returns is an  *)
(* input: the timestamps stored for the date, in any order.                 *)

\* Most timestamps the cache holds for the date
MaxCached == 3

\* The times of revisions and of Last-Modified headers, in minutes
Timestamps == {0, 3, 5, 6, 10, 12, 70}

\* datetime.timedelta(minutes=5)
five_minutes == 5

\* abs(timedelta)
abs(timedelta) == IF timedelta < 0 THEN 0 - timedelta ELSE timedelta

\* self.cache.get_timestamps(date): the timestamps stored for the date
get_timestamps ==
    UNION { Orders(stored) :
              stored \in {S \in SUBSET Timestamps : Cardinality(S) <= MaxCached} }

\* The for statement of lines 192-197 over the timestamps that are left
RECURSIVE revision_from(_, _, _)
revision_from(other_timestamps, timestamp, modified) ==
    IF other_timestamps = <<>> THEN modified
    ELSE IF Head(other_timestamps) <= timestamp THEN Head(other_timestamps)
    ELSE IF abs(timestamp - Head(other_timestamps)) > five_minutes THEN modified
    ELSE revision_from(Tail(other_timestamps), timestamp, modified)

\* PlanDownloader.get_revision_from_last_modified (lines 186-199)
get_revision_from_last_modified(timestamps, modified) ==
    revision_from(timestamps, modified + five_minutes, modified)

InitRevision ==
    /\ pc = "revision_start"
    /\ cached_timestamps \in get_timestamps
    /\ last_modified \in Timestamps
    /\ revision = Unused
    /\ cur_lesson = Unused /\ cur_plan_type = Unused
    /\ TextIdle /\ GroupedIdle /\ NormaliseIdle /\ SortIdle /\ CrawlerIdle

CallGetRevision ==
    /\ pc = "revision_start"
    /\ revision' = get_revision_from_last_modified(cached_timestamps, last_modified)
    /\ pc' = "revision_done"
    /\ UNCHANGED <<cached_timestamps, last_modified, lessonVars, textVars, groupedVars,
                   normaliseVars, sortVars, crawlerVars>>

NextRevision == CallGetRevision

SpecRevision == InitRevision /\ [][NextRevision]_vars

IsCached(timestamp) == \E k \in DOMAIN cached_timestamps : cached_timestamps[k] = timestamp

\* C30: get_revision_from_last_modified returns last_modified or a timestamp
\* of the cache, and a timestamp of the cache only when it lies within five
\* minutes of last_modified, whatever timestamps the cache holds in whatever
\* order.
C30_ReusesOnlyRecentRevisions ==
    pc = "revision_done" =>
        \/ revision = last_modified
        \/ /\ IsCached(revision)
           /\ abs(revision - last_modified) <= five_minutes

\* The result is always last_modified or a timestamp of the cache.
ReturnsKnownTimestamp ==
    pc = "revision_done" => (revision = last_modified \/ IsCached(revision))

\* The cache holds a revision of three minutes before last_modified behind
\* one of much later, and the call has returned the first.
C30_Witness ==
    /\ pc = "revision_done"
    /\ cached_timestamps = << 12, 3 >>
    /\ last_modified = 6
    /\ revision = 3

====
